---- MODULE Spec2Model ----
(***************************************************************************)
(* OpsForge backend: the agent action-execution / audit / override         *)
(* pipeline, the clock tools, the task tools and the report tools, as      *)
(* state machines.                                                         *)
(*                                                                         *)
(* Four stores are modelled, each with the operations that touch it:       *)
(*   agent_actions  (AgentManager.execute_action, BaseAgent.execute,       *)
(*                   BaseAgent._save_action, POST /agents/execute, the      *)
(*                   history and detail endpoints, override_agent_action)  *)
(*   clock_records  (clock_in_tool, clock_out_tool)                        *)
(*   tasks          (create_task_tool, assign_task_tool,                   *)
(*                   update_task_status_tool, POST /tasks,                 *)
(*                   PUT /tasks/{task_id}, POST /tasks/{task_id}/assign)   *)
(*   reports        (generate_attendance_report_tool,                      *)
(*                   generate_task_report_tool,                            *)
(*                   generate_weekly_summary_tool, POST /reports/generate) *)
(* The specifications are Spec (execute_action), EndpointSpec (POST        *)
(* /agents/execute), OverrideSpec (the override endpoint over logged       *)
(* rows), AuditSpec (execute, override and the read endpoints),            *)
(* ManagerSpec (initialize and cleanup of the manager), ToolRunSpec (agent *)
(* runs that call a tool), ClockSpec, ShiftSpec (a clock-out after a       *)
(* shift), TaskSpec, TaskApiSpec (task tools and task endpoints),          *)
(* ReportSpec and ReportApiSpec (POST /reports/generate).                  *)
(***************************************************************************)
EXTENDS Integers, Sequences, FiniteSets, TLC

VARIABLES
    initialized,     \* AgentManager._initialized
    agents,          \* keys of AgentManager.agents
    rag_retriever,   \* AgentManager.rag_retriever
    memory,          \* keys of the registered agents whose memory holds exchanges
    constructed,     \* how many times initialize has built the registry
    mgr,             \* the last call of initialize or cleanup, and how it ended
    agent_actions,   \* table agent_actions, in id order (row i has id i)
    open_sessions,   \* execute_action calls whose SessionLocal() is not closed
    ex,              \* per execute_action call: its position and locals
    ov,              \* per override request: its position and locals
    clock_records,   \* table clock_records, in id order
    ck,              \* per clock tool call: its position and locals
    now,             \* datetime.utcnow(), in seconds
    tasks,           \* table tasks, in id order
    task_comments,   \* table task_comments, in id order
    last,            \* the task tool call that returned last: arguments and result
    view,            \* the last response of the read endpoints of the agents router
    reports,         \* table reports, in id order
    rep,             \* the report tool call that returned last: arguments and result
    gen              \* the POST /reports/generate request in flight or answered last

managerVars == <<initialized, agents, rag_retriever, memory, constructed, mgr>>
agentVars == <<managerVars, agent_actions, open_sessions, ex, ov, view>>
clockVars == <<clock_records, ck, now>>
taskVars  == <<tasks, task_comments, last>>
reportVars == <<reports, rep, gen>>
vars      == <<initialized, agents, rag_retriever, memory, constructed, mgr,
               agent_actions, open_sessions, ex, ov,
               clock_records, ck, now, tasks, task_comments, last, view, reports, rep,
               gen>>

\* Python None / SQL NULL
None == "None"

\* None / NULL where the value is a number: a DateTime, Float or Integer column
NULL == -1

(***************************************************************************)
(* Bounds of the model                                                     *)
(***************************************************************************)
\* execute_action calls in one run (each may overlap the others)
NumCalls == 2
\* override requests in one run (each may overlap the others)
NumOverrides == 2
\* rows already in agent_actions when the override requests arrive
NumRows == 2

\* clock tool calls in one run (each may overlap the others)
NumClockCalls == 3
\* the latest time of a run, in seconds
MaxTime == 3600

\* tasks the task tools create in one run
MaxNewTasks == 1
\* comments the task tools add in one run
MaxComments == 1

\* rows of clock_records when the report tools run, at most
NumAttendance == 1
\* reports the report tools persist in one run
MaxReports == 1

\* the short shifts of a run last 0 to this many seconds
MaxShiftSeconds == 60

\* constructions of the registry in one run (cleanup is not called after the last)
MaxConstructions == 2

ExecCalls == 1..NumCalls
\* assignee_id arguments of the task tools: two users and an id of no user
TaskUserInputs == {"u1", "u2", "u9"}
\* new_status arguments of update_task_status_tool: statuses and another word
StatusInputs == {"review", "completed", "cancelled", "done"}
ClockCalls == 1..NumClockCalls
\* seconds by which time advances between two steps
TickSteps == {1800}
\* user_id arguments of the clock tools: two users and an id of no user
ClockUserInputs == {"u1", "u2", "u9"}
OverrideReqs == 1..NumOverrides

\* rows of table users: an employee and two users holding the manager role
UserIds == {"u1", "u2", "u3"}
Managers == {"u2", "u3"}
\* callers of POST /agents/execute in the model
Callers == {"u1", "u2"}
\* agent_type values a caller may send: the three registry keys and one other
AgentTypes == {"clock", "task", "report", "billing"}
\* messages (str(e)) of the exceptions an agent run raises; that of
\* asyncio.TimeoutError() is the empty string
Exceptions == {"LLM request failed", ""}
\* how the awaited agent run ends: it returns, or raises one of Exceptions
Outcomes == {"ok"} \cup Exceptions
\* action ids an override request may name: the logged rows and one absent id
ActionIds == 1..(NumRows + 1)
\* override reasons a manager may give
Reasons == {"wrong user", "duplicate"}
\* corrective_action payloads a manager may send (the handler never reads it)
CorrectiveActions == {"delete clock record"}

(***************************************************************************)
(* Agent manager and agents                                                *)
(***************************************************************************)
\* The registry built by AgentManager.initialize
RegistryKeys == {"clock", "task", "report"}

\* BaseAgent.name of the agent registered under a key
AgentName(key) ==
    CASE key = "clock"  -> "Clock Management Agent"
      [] key = "task"   -> "Task Management Agent"
      [] key = "report" -> "Report Generation Agent"

\* A result envelope is a Python dict: keys is the set of keys it holds, and a
\* field whose key is absent holds None (execution_time_ms: 0)
NoResult ==
    [keys |-> {}, success |-> FALSE, output |-> None, error |-> None,
     agent |-> None, execution_time_ms |-> 0]

\* The HTTP response of POST /agents/execute: keys is the set of the fields of
\* the body that are not null; no response yet
NoResponse ==
    [status_code |-> 0, keys |-> {}, success |-> FALSE, output |-> None,
     error |-> None, agent |-> None, action_id |-> NULL]

\* An execute_action call that has not started. invoked, opened, audit and rows
\* record what the call has done so far: agent.execute entered, SessionLocal()
\* called, the branch _save_action took, the ids of the rows it committed;
\* runs counts the awaits of executor.ainvoke, outcome is how the last of them
\* ended, raised_by the function whose exception left execute_action; instance
\* is the registry (the value of constructed) whose agent runs the call.
IdleCall ==
    [pc |-> "idle", agent_type |-> None, user_id |-> None, result |-> NoResult,
     invoked |-> FALSE, opened |-> FALSE, audit |-> "none", rows |-> {},
     runs |-> 0, outcome |-> None, raised_by |-> None, instance |-> 0,
     response |-> NoResponse]

\* No call of initialize or cleanup yet
NoLifecycle == [op |-> None, result |-> None, by |-> None]

\* The envelope execute_action returns for an unknown agent type
UnknownAgentResult(agent_type) ==
    [keys |-> {"success", "error", "agent"},
     success |-> FALSE, output |-> None, error |-> "Unknown agent type",
     agent |-> agent_type, execution_time_ms |-> 0]

\* The envelope BaseAgent.execute builds on success
SuccessResult(name) ==
    [keys |-> {"success", "output", "agent", "execution_time_ms", "intermediate_steps"},
     success |-> TRUE, output |-> "output", error |-> None,
     agent |-> name, execution_time_ms |-> 0]

\* The envelope BaseAgent.execute builds in its except branch
ErrorResult(name, e) ==
    [keys |-> {"success", "error", "agent", "execution_time_ms"},
     success |-> FALSE, output |-> None, error |-> e,
     agent |-> name, execution_time_ms |-> 0]

\* The AgentAction row _save_action constructs; id and timestamp are assigned
\* at insert (input_data is not modelled)
NewAgentAction(id, name, result, user_id) ==
    [id |-> id, agent_name |-> name, action_type |-> "execute",
     output_data |-> result,
     success |-> result.success,
     execution_time_ms |-> result.execution_time_ms,
     timestamp |-> now,
     error_message |-> IF result.success THEN None ELSE result.error,
     user_id |-> user_id,
     overridden |-> FALSE, overridden_by_id |-> None, override_reason |-> None]

\* Dispatch with SessionLocal() moved before the registry lookup: an unknown
\* agent type then leaves with a session opened
Dispatch_session_first(c, agent_type, user_id, registry, instance) ==
    /\ ex' = [ex EXCEPT ![c] =
                IF agent_type \notin registry
                THEN [@ EXCEPT !.pc = "returned", !.agent_type = agent_type,
                               !.user_id = user_id, !.opened = TRUE,
                               !.result = UnknownAgentResult(agent_type)]
                ELSE [@ EXCEPT !.pc = "running", !.agent_type = agent_type,
                               !.user_id = user_id, !.opened = TRUE,
                               !.invoked = TRUE, !.instance = instance]]
    /\ open_sessions' = open_sessions \cup {c}

\* execute_action after the lazy initialize: registry lookup, then SessionLocal()
\* and the await of agent.execute, which suspends in the agent run
Dispatch(c, agent_type, user_id, registry, instance) ==
    IF agent_type \notin registry
    THEN /\ ex' = [ex EXCEPT ![c] = [@ EXCEPT !.pc = "returned",
                                              !.agent_type = agent_type,
                                              !.user_id = user_id,
                                              !.result = UnknownAgentResult(agent_type)]]
         /\ UNCHANGED open_sessions
    ELSE /\ ex' = [ex EXCEPT ![c] = [@ EXCEPT !.pc = "running",
                                              !.agent_type = agent_type,
                                              !.user_id = user_id,
                                              !.opened = TRUE,
                                              !.invoked = TRUE,
                                              !.instance = instance]]
         /\ open_sessions' = open_sessions \cup {c}

\* AgentManager.initialize that builds the registry without setting the flag
initialize_body_unflagged(ok, by) ==
    IF initialized
    THEN /\ mgr' = [op |-> "initialize", result |-> "noop", by |-> by]
         /\ UNCHANGED <<initialized, agents, rag_retriever, memory, constructed>>
    ELSE IF ok
    THEN /\ UNCHANGED initialized
         /\ rag_retriever' = "RAGRetriever"
         /\ agents' = RegistryKeys
         /\ memory' = {}
         /\ constructed' = constructed + 1
         /\ mgr' = [op |-> "initialize", result |-> "constructed", by |-> by]
    ELSE /\ rag_retriever' = "RAGRetriever"
         /\ mgr' = [op |-> "initialize", result |-> "raised", by |-> by]
         /\ UNCHANGED <<initialized, agents, memory, constructed>>

\* AgentManager.initialize, from its first line to its return or raise. No
\* await in it suspends: RAGRetriever.initialize awaits only
\* VectorStoreManager.initialize, whose body holds no await, so the event loop
\* runs no other call between the test of the flag and its assignment. ok: no
\* step raised; otherwise the retriever's initialize() raised, after
\* self.rag_retriever was assigned.
initialize_body(ok, by) ==
    IF initialized
    THEN /\ mgr' = [op |-> "initialize", result |-> "noop", by |-> by]
         /\ UNCHANGED <<initialized, agents, rag_retriever, memory, constructed>>
    ELSE IF ok
    THEN /\ rag_retriever' = "RAGRetriever"
         /\ agents' = RegistryKeys
         /\ memory' = {}
         /\ constructed' = constructed + 1
         /\ initialized' = TRUE
         /\ mgr' = [op |-> "initialize", result |-> "constructed", by |-> by]
    ELSE /\ rag_retriever' = "RAGRetriever"
         /\ mgr' = [op |-> "initialize", result |-> "raised", by |-> by]
         /\ UNCHANGED <<initialized, agents, memory, constructed>>

\* AgentManager.execute_action is called: an uninitialized manager is
\* initialized first, and an exception of initialize leaves execute_action
execute_action(c, agent_type, user_id, ok) ==
    /\ ex[c].pc = "idle"
    /\ IF initialized
       THEN /\ Dispatch(c, agent_type, user_id, agents, constructed)
            /\ UNCHANGED managerVars
       ELSE /\ initialize_body(ok, "execute_action")
            /\ IF ok
               THEN Dispatch(c, agent_type, user_id, RegistryKeys, constructed + 1)
               ELSE /\ ex' = [ex EXCEPT ![c] = [@ EXCEPT !.pc = "raised",
                                                         !.agent_type = agent_type,
                                                         !.user_id = user_id,
                                                         !.raised_by = "initialize"]]
                    /\ UNCHANGED open_sessions
    /\ UNCHANGED <<agent_actions, ov>>
    /\ UNCHANGED <<view, clockVars, taskVars, reportVars>>

\* AgentManager.initialize called directly (the lifespan of the application
\* calls it at startup)
initialize(ok) ==
    /\ initialize_body(ok, "lifespan")
    /\ UNCHANGED <<agent_actions, open_sessions, ex, ov>>
    /\ UNCHANGED <<view, clockVars, taskVars, reportVars>>

\* AgentManager.cleanup that leaves the initialized flag set
cleanup_keeps_flag ==
    /\ constructed < MaxConstructions
    /\ memory' = {}
    /\ mgr' = [op |-> "cleanup", result |-> "done", by |-> "lifespan"]
    /\ UNCHANGED <<initialized, agents, rag_retriever, constructed>>
    /\ UNCHANGED <<agent_actions, open_sessions, ex, ov>>
    /\ UNCHANGED <<view, clockVars, taskVars, reportVars>>

\* AgentManager.cleanup: the retriever's cleanup() does nothing, every agent of
\* the registry clears its memory, the flag is reset; the registry and the
\* retriever stay. No await in it suspends.
cleanup ==
    /\ constructed < MaxConstructions
    /\ memory' = {}
    /\ initialized' = FALSE
    /\ mgr' = [op |-> "cleanup", result |-> "done", by |-> "lifespan"]
    /\ UNCHANGED <<agents, rag_retriever, constructed>>
    /\ UNCHANGED <<agent_actions, open_sessions, ex, ov>>
    /\ UNCHANGED <<view, clockVars, taskVars, reportVars>>

\* The memory of the registered agents after one of them ended a run: the
\* executor saves the exchange of a run that returned
Remembered(c, outcome) ==
    IF outcome = "ok" /\ ex[c].instance = constructed
    THEN memory \cup {ex[c].agent_type}
    ELSE memory

\* BaseAgent.execute whose except branch returns without calling _save_action
agent_execute_unlogged_error(c, outcome) ==
    /\ ex[c].pc = "running"
    /\ ex' = [ex EXCEPT ![c] =
                IF outcome = "ok"
                THEN [@ EXCEPT !.pc = "saving", !.runs = @ + 1, !.outcome = outcome,
                               !.result = SuccessResult(AgentName(ex[c].agent_type))]
                ELSE [@ EXCEPT !.pc = "closing", !.runs = @ + 1, !.outcome = outcome,
                               !.result = ErrorResult(AgentName(ex[c].agent_type), outcome)]]
    /\ memory' = Remembered(c, outcome)
    /\ UNCHANGED <<initialized, agents, rag_retriever, constructed, mgr>>
    /\ UNCHANGED <<agent_actions, open_sessions, ov>>
    /\ UNCHANGED <<view, clockVars, taskVars, reportVars>>

\* BaseAgent.execute that lets the exception of the agent run propagate
agent_execute_reraises(c, outcome) ==
    /\ ex[c].pc = "running"
    /\ ex' = [ex EXCEPT ![c] =
                IF outcome = "ok"
                THEN [@ EXCEPT !.pc = "saving", !.runs = @ + 1, !.outcome = outcome,
                               !.result = SuccessResult(AgentName(ex[c].agent_type))]
                ELSE [@ EXCEPT !.pc = "raised", !.runs = @ + 1, !.outcome = outcome,
                               !.raised_by = "execute"]]
    /\ memory' = Remembered(c, outcome)
    /\ UNCHANGED <<initialized, agents, rag_retriever, constructed, mgr>>
    /\ UNCHANGED <<agent_actions, open_sessions, ov>>
    /\ UNCHANGED <<view, clockVars, taskVars, reportVars>>

\* execute_action's finally without db.close()
close_session_leaks(c) ==
    /\ ex[c].pc = "closing"
    /\ ex' = [ex EXCEPT ![c].pc = "returned"]
    /\ UNCHANGED <<managerVars, agent_actions, open_sessions, ov>>
    /\ UNCHANGED <<view, clockVars, taskVars, reportVars>>

\* BaseAgent.execute: the awaited executor.ainvoke returns or raises; the
\* envelope is built in the try body or in the except branch
agent_execute(c, outcome) ==
    /\ ex[c].pc = "running"
    /\ ex' = [ex EXCEPT ![c] = [@ EXCEPT
                !.pc = "saving",
                !.runs = @ + 1,
                !.outcome = outcome,
                !.result = IF outcome = "ok"
                           THEN SuccessResult(AgentName(ex[c].agent_type))
                           ELSE ErrorResult(AgentName(ex[c].agent_type), outcome)]]
    /\ memory' = Remembered(c, outcome)
    /\ UNCHANGED <<initialized, agents, rag_retriever, constructed, mgr>>
    /\ UNCHANGED <<agent_actions, open_sessions, ov>>
    /\ UNCHANGED <<view, clockVars, taskVars, reportVars>>

\* BaseAgent.execute that writes the row of the run and, from its except
\* branch, a failure row after it
save_action_logs_twice(c, commit_ok) ==
    /\ ex[c].pc = "saving"
    /\ IF commit_ok
       THEN LET id == Len(agent_actions) + 1 IN
            /\ agent_actions' = agent_actions \o
                   << NewAgentAction(id, ex[c].result.agent, ex[c].result, ex[c].user_id),
                      NewAgentAction(id + 1, ex[c].result.agent,
                                     ErrorResult(ex[c].result.agent, "late failure"),
                                     ex[c].user_id) >>
            /\ ex' = [ex EXCEPT ![c] = [@ EXCEPT !.pc = "closing",
                                                 !.audit = "committed",
                                                 !.rows = @ \cup {id, id + 1}]]
       ELSE /\ ex' = [ex EXCEPT ![c] = [@ EXCEPT !.pc = "closing",
                                                 !.audit = "rolled_back"]]
            /\ UNCHANGED agent_actions
    /\ UNCHANGED <<managerVars, open_sessions, ov>>
    /\ UNCHANGED <<view, clockVars, taskVars, reportVars>>

\* BaseAgent._save_action whose failed commit replaces the envelope of the run
save_action_masks_result(c, commit_ok) ==
    /\ ex[c].pc = "saving"
    /\ IF commit_ok
       THEN LET id == Len(agent_actions) + 1 IN
            /\ agent_actions' = Append(agent_actions,
                   NewAgentAction(id, ex[c].result.agent, ex[c].result, ex[c].user_id))
            /\ ex' = [ex EXCEPT ![c] = [@ EXCEPT !.pc = "closing",
                                                 !.audit = "committed",
                                                 !.rows = @ \cup {id}]]
       ELSE /\ ex' = [ex EXCEPT ![c] = [@ EXCEPT !.pc = "closing",
                                                 !.audit = "rolled_back",
                                                 !.result = ErrorResult(ex[c].result.agent,
                                                                        "commit failed")]]
            /\ UNCHANGED agent_actions
    /\ UNCHANGED <<managerVars, open_sessions, ov>>
    /\ UNCHANGED <<view, clockVars, taskVars, reportVars>>

\* BaseAgent._save_action: add and commit the row, or (commit raised) log and
\* roll back
save_action(c, commit_ok) ==
    /\ ex[c].pc = "saving"
    /\ IF commit_ok
       THEN LET id == Len(agent_actions) + 1 IN
            /\ agent_actions' = Append(agent_actions,
                   NewAgentAction(id, ex[c].result.agent, ex[c].result, ex[c].user_id))
            /\ ex' = [ex EXCEPT ![c] = [@ EXCEPT !.pc = "closing",
                                                 !.audit = "committed",
                                                 !.rows = @ \cup {id}]]
       ELSE /\ ex' = [ex EXCEPT ![c] = [@ EXCEPT !.pc = "closing",
                                                 !.audit = "rolled_back"]]
            /\ UNCHANGED agent_actions
    /\ UNCHANGED <<managerVars, open_sessions, ov>>
    /\ UNCHANGED <<view, clockVars, taskVars, reportVars>>

\* execute_action's finally: db.close(), then the envelope is returned
close_session(c) ==
    /\ ex[c].pc = "closing"
    /\ open_sessions' = open_sessions \ {c}
    /\ ex' = [ex EXCEPT ![c].pc = "returned"]
    /\ UNCHANGED <<managerVars, agent_actions, ov>>
    /\ UNCHANGED <<view, clockVars, taskVars, reportVars>>

(***************************************************************************)
(* POST /agents/execute                                                    *)
(***************************************************************************)
\* last_action: the row with the greatest id among the caller's rows
LastActionId(user_id) ==
    LET mine == {i \in DOMAIN agent_actions : agent_actions[i].user_id = user_id}
    IN  IF mine = {} THEN NULL ELSE CHOOSE i \in mine : \A j \in mine : j <= i

\* The AgentResponse built from the envelope and the last action of the caller
AgentResponse(result, action_id) ==
    [status_code |-> 200,
     keys |-> {"success", "agent", "execution_time_ms"}
                \cup (result.keys \cap {"output", "error"})
                \cup (IF action_id = NULL THEN {} ELSE {"action_id"}),
     success |-> result.success, output |-> result.output, error |-> result.error,
     agent |-> result.agent, action_id |-> action_id]

\* The response of the handler's except branch: HTTPException(500, detail=str(e))
ServerError ==
    [NoResponse EXCEPT !.status_code = 500, !.keys = {"detail"}]

\* execute_agent_action after its await of execute_action: the caller's last
\* action is queried and the AgentResponse is built from the envelope; an
\* exception (raised by execute_action, or the KeyError of an envelope
\* without the key read) is answered with status 500
execute_agent_action(c) ==
    /\ ex[c].pc \in {"returned", "raised"}
    /\ ex[c].response.status_code = 0
    /\ ex' = [ex EXCEPT ![c].response =
                IF ex[c].pc = "raised"
                   \/ ~({"success", "agent", "execution_time_ms"} \subseteq ex[c].result.keys)
                THEN ServerError
                ELSE AgentResponse(ex[c].result, LastActionId(ex[c].user_id))]
    /\ UNCHANGED <<managerVars, agent_actions, open_sessions, ov>>
    /\ UNCHANGED <<view, clockVars, taskVars, reportVars>>

(***************************************************************************)
(* Read endpoints of the agents router                                     *)
(***************************************************************************)
\* No read endpoint has answered yet. ids are the ids of the rows in the
\* response, in its order; total is the count the history reports.
NoView ==
    [op |-> None, status_code |-> 0, ids |-> <<>>, total |-> 0]

\* ORDER BY timestamp DESC: rows carry the time of their insert, so the latest
\* row is the one with the greatest id
RECURSIVE Descending(_)
Descending(ids) ==
    IF ids = {} THEN <<>>
    ELSE LET m == CHOOSE i \in ids : \A j \in ids : j <= i
         IN  <<m>> \o Descending(ids \ {m})

\* query.offset(offset).limit(limit).all()
Page(rows, limit, offset) ==
    SubSeq(rows, offset + 1, IF offset + limit < Len(rows) THEN offset + limit ELSE Len(rows))

\* GET /agents/actions/history: the rows are filtered by agent_name, by success
\* and, for a caller who is no manager, by actor; they are counted and one page
\* of them is returned
get_agent_actions(caller, agent_type, success_only, limit, offset) ==
    LET matching == {i \in DOMAIN agent_actions :
                        /\ agent_type # None => agent_actions[i].agent_name = agent_type
                        /\ success_only => agent_actions[i].success
                        /\ caller \notin Managers => agent_actions[i].user_id = caller}
    IN
    /\ view' = [op |-> "history", status_code |-> 200,
                ids |-> Page(Descending(matching), limit, offset),
                total |-> Cardinality(matching)]
    /\ UNCHANGED <<managerVars, agent_actions, open_sessions, ex, ov>>
    /\ UNCHANGED <<clockVars, taskVars, reportVars>>

\* GET /agents/actions/{action_id}: 404 for an absent row, 403 for a row of
\* another actor when the caller is no manager, else the row
get_agent_action_detail(caller, action_id) ==
    /\ view' = [NoView EXCEPT
                !.op = "detail",
                !.status_code =
                    IF action_id \notin DOMAIN agent_actions THEN 404
                    ELSE IF caller \notin Managers
                            /\ agent_actions[action_id].user_id # caller THEN 403
                    ELSE 200,
                !.ids =
                    IF action_id \in DOMAIN agent_actions
                       /\ (caller \in Managers
                            \/ agent_actions[action_id].user_id = caller)
                    THEN <<action_id>> ELSE <<>>]
    /\ UNCHANGED <<managerVars, agent_actions, open_sessions, ex, ov>>
    /\ UNCHANGED <<clockVars, taskVars, reportVars>>

(***************************************************************************)
(* Action override workflow: POST /agents/actions/{action_id}/override     *)
(***************************************************************************)
\* An override request that has not arrived
IdleOverride ==
    [pc |-> "idle", action_id |-> 0, user_id |-> None, reason |-> None,
     corrective_action |-> None, status_code |-> 0]

\* action = db.query(AgentAction).filter(AgentAction.id == action_id).first()
ActionExists(action_id) == action_id \in 1..Len(agent_actions)

\* override_agent_action without the "already overridden" check: a second
\* override is accepted silently
override_agent_action_unchecked(r, action_id, manager, reason, corrective_action) ==
    /\ ov[r].pc = "idle"
    /\ LET req == [ov[r] EXCEPT !.action_id = action_id, !.user_id = manager,
                                !.reason = reason,
                                !.corrective_action = corrective_action]
       IN  ov' = [ov EXCEPT ![r] =
                IF ~ActionExists(action_id)
                THEN [req EXCEPT !.pc = "done", !.status_code = 404]
                ELSE [req EXCEPT !.pc = "commit"]]
    /\ UNCHANGED <<managerVars, agent_actions, open_sessions, ex>>
    /\ UNCHANGED <<view, clockVars, taskVars, reportVars>>

\* override_agent_action up to its commit: the row is read in the request's own
\* session; 404 if absent, 400 if it reads as overridden. The request body
\* carries reason and corrective_action; the handler reads only reason.
override_agent_action(r, action_id, manager, reason, corrective_action) ==
    /\ ov[r].pc = "idle"
    /\ LET req == [ov[r] EXCEPT !.action_id = action_id, !.user_id = manager,
                                !.reason = reason,
                                !.corrective_action = corrective_action]
       IN  ov' = [ov EXCEPT ![r] =
                CASE ~ActionExists(action_id) ->
                        [req EXCEPT !.pc = "done", !.status_code = 404]
                  [] ActionExists(action_id) /\ agent_actions[action_id].overridden ->
                        [req EXCEPT !.pc = "done", !.status_code = 400]
                  [] OTHER ->
                        [req EXCEPT !.pc = "commit"]]
    /\ UNCHANGED <<managerVars, agent_actions, open_sessions, ex>>
    /\ UNCHANGED <<view, clockVars, taskVars, reportVars>>

\* override_commit that also rewrites the outcome recorded in the row
override_commit_rewrites(r) ==
    /\ ov[r].pc = "commit"
    /\ agent_actions' = [agent_actions EXCEPT ![ov[r].action_id] =
                            [@ EXCEPT !.overridden = TRUE,
                                      !.overridden_by_id = ov[r].user_id,
                                      !.override_reason = ov[r].reason,
                                      !.success = ~@]]
    /\ ov' = [ov EXCEPT ![r] = [@ EXCEPT !.pc = "done", !.status_code = 200]]
    /\ UNCHANGED <<managerVars, open_sessions, ex>>
    /\ UNCHANGED <<view, clockVars, taskVars, reportVars>>

\* override_agent_action's db.commit(): the three attributes set on the loaded
\* object are written to the row, and the request answers 200
override_commit(r) ==
    /\ ov[r].pc = "commit"
    /\ agent_actions' = [agent_actions EXCEPT ![ov[r].action_id] =
                            [@ EXCEPT !.overridden = TRUE,
                                      !.overridden_by_id = ov[r].user_id,
                                      !.override_reason = ov[r].reason]]
    /\ ov' = [ov EXCEPT ![r] = [@ EXCEPT !.pc = "done", !.status_code = 200]]
    /\ UNCHANGED <<managerVars, open_sessions, ex>>
    /\ UNCHANGED <<view, clockVars, taskVars, reportVars>>

(***************************************************************************)
(* Clock tools                                                             *)
(***************************************************************************)
\* A clock tool call that has not started. stamp is the call's
\* datetime.utcnow(), loaded the id of the record its query returned.
IdleClock ==
    [pc |-> "idle", tool |-> None, user_id |-> None, stamp |-> NULL,
     loaded |-> 0, result |-> None]

\* db.query(User).filter(User.id == user_id).first()
UserExists(user_id) == user_id \in UserIds

\* ids of the rows matching ClockRecord.user_id == user_id, clock_out IS NULL
OpenRecords(records, user_id) ==
    {i \in DOMAIN records :
        records[i].user_id = user_id /\ records[i].clock_out = NULL}

\* round(x, 2) of x = num / den hours, in hundredths of an hour (ties to even)
Round2(num, den) ==
    LET q == (num * 100) \div den
        r == (num * 100) % den
    IN  IF 2 * r > den \/ (2 * r = den /\ q % 2 = 1) THEN q + 1 ELSE q

\* The hours worked cut to 2 decimals instead of rounded
HoursWorked_truncated(clock_in, clock_out) == ((clock_out - clock_in) * 100) \div 3600

\* round(time_diff.total_seconds() / 3600, 2), in hundredths of an hour
HoursWorked(clock_in, clock_out) == Round2(clock_out - clock_in, 3600)

\* The ClockRecord clock_in_tool constructs
NewClockRecord(id, user_id, stamp) ==
    [id |-> id, user_id |-> user_id, clock_in |-> stamp, clock_out |-> NULL,
     status |-> "clocked_in", total_hours |-> NULL]

\* clock_in_tool without its "already clocked in" check
clock_in_tool_unchecked(k, user_id) ==
    /\ ck[k].pc = "idle"
    /\ LET call == [ck[k] EXCEPT !.tool = "clock_in", !.user_id = user_id]
       IN  ck' = [ck EXCEPT ![k] =
                IF ~UserExists(user_id)
                THEN [call EXCEPT !.pc = "done", !.result = "Error: User not found"]
                ELSE [call EXCEPT !.pc = "insert", !.stamp = now]]
    /\ UNCHANGED <<clock_records, now>>
    /\ UNCHANGED <<agentVars, taskVars, reportVars>>

\* clock_in_tool up to db.add: the user and the open record are queried, an
\* error string is returned or the record is constructed with the current time
clock_in_tool(k, user_id) ==
    /\ ck[k].pc = "idle"
    /\ LET call == [ck[k] EXCEPT !.tool = "clock_in", !.user_id = user_id]
       IN  ck' = [ck EXCEPT ![k] =
                CASE ~UserExists(user_id) ->
                        [call EXCEPT !.pc = "done", !.result = "Error: User not found"]
                  [] UserExists(user_id) /\ OpenRecords(clock_records, user_id) # {} ->
                        [call EXCEPT !.pc = "done",
                                     !.result = "Error: already clocked in"]
                  [] OTHER ->
                        [call EXCEPT !.pc = "insert", !.stamp = now]]
    /\ UNCHANGED <<clock_records, now>>
    /\ UNCHANGED <<agentVars, taskVars, reportVars>>

\* clock_in_tool's db.add(clock_record); db.commit() and its return; a commit
\* that raises is rolled back in the except branch, which returns the error
clock_in_commit(k, commit_ok) ==
    /\ ck[k].pc = "insert"
    /\ IF commit_ok
       THEN /\ clock_records' = Append(clock_records,
                    NewClockRecord(Len(clock_records) + 1, ck[k].user_id, ck[k].stamp))
            /\ ck' = [ck EXCEPT ![k] = [@ EXCEPT !.pc = "done",
                                                 !.loaded = Len(clock_records) + 1,
                                                 !.result = "Successfully clocked in"]]
       ELSE /\ ck' = [ck EXCEPT ![k] = [@ EXCEPT !.pc = "done",
                                                 !.result = "Error clocking in"]]
            /\ UNCHANGED clock_records
    /\ UNCHANGED now
    /\ UNCHANGED <<agentVars, taskVars, reportVars>>

\* clock_out_tool up to db.commit: the user and the open record are queried
\* (.first() of an unordered query: any of the open records), an error string
\* is returned or the clock-out time is taken
clock_out_tool(k, user_id) ==
    /\ ck[k].pc = "idle"
    /\ LET call == [ck[k] EXCEPT !.tool = "clock_out", !.user_id = user_id]
       IN  IF ~UserExists(user_id)
           THEN ck' = [ck EXCEPT ![k] =
                    [call EXCEPT !.pc = "done", !.result = "Error: User not found"]]
           ELSE IF OpenRecords(clock_records, user_id) = {}
           THEN ck' = [ck EXCEPT ![k] =
                    [call EXCEPT !.pc = "done",
                                 !.result = "Error: not currently clocked in"]]
           ELSE \E i \in OpenRecords(clock_records, user_id) :
                    ck' = [ck EXCEPT ![k] =
                        [call EXCEPT !.pc = "update", !.loaded = i, !.stamp = now]]
    /\ UNCHANGED <<clock_records, now>>
    /\ UNCHANGED <<agentVars, taskVars, reportVars>>

\* clock_out_tool's db.commit() of the attributes set on the loaded record, and
\* its return
clock_out_commit(k) ==
    /\ ck[k].pc = "update"
    /\ clock_records' = [clock_records EXCEPT ![ck[k].loaded] =
            [@ EXCEPT !.clock_out = ck[k].stamp,
                      !.status = "clocked_out",
                      !.total_hours =
                          HoursWorked(clock_records[ck[k].loaded].clock_in,
                                      ck[k].stamp)]]
    /\ ck' = [ck EXCEPT ![k] = [@ EXCEPT !.pc = "done",
                                         !.result = "Successfully clocked out"]]
    /\ UNCHANGED now
    /\ UNCHANGED <<agentVars, taskVars, reportVars>>

\* Wall-clock time passes
Tick(d) ==
    /\ now + d <= MaxTime
    /\ now' = now + d
    /\ UNCHANGED <<clock_records, ck>>
    /\ UNCHANGED <<agentVars, taskVars, reportVars>>

(***************************************************************************)
(* Task tools                                                              *)
(***************************************************************************)
\* TaskStatus
TaskStatuses == {"todo", "in_progress", "review", "completed", "cancelled"}

\* TaskPriority
TaskPriorities == {"low", "medium", "high", "urgent"}

\* The mapped attributes of class Task (columns and relationships)
TaskAttributes ==
    {"id", "title", "description", "assignee_id", "created_by_id", "due_date",
     "priority", "status", "estimated_hours", "actual_hours", "tags",
     "created_at", "updated_at", "completed_at", "assignee", "creator", "comments"}

\* assign_task_tool warns from this many active tasks on
WorkloadLimit == 10

\* The statuses assign_task_tool counts as active
ActiveStatuses == {"todo", "in_progress"}

\* The Task a tool or the POST /tasks endpoint constructs
NewTask(id, assignee_id, created_by_id, created_at) ==
    [id |-> id, assignee_id |-> assignee_id, created_by_id |-> created_by_id,
     status |-> "todo", created_at |-> created_at, completed_at |-> NULL]

\* db.query(Task).filter(Task.id == task_id).first()
TaskExists(task_id) == task_id \in DOMAIN tasks

\* db.query(Task).filter(Task.assignee_id == assignee_id,
\*                       Task.status.in_([TODO, IN_PROGRESS])).count()
ActiveTasks(assignee_id) ==
    Cardinality({i \in DOMAIN tasks :
        tasks[i].assignee_id = assignee_id /\ tasks[i].status \in ActiveStatuses})

\* What a task tool call was given and what it found and returned; no call yet
NoCall ==
    [tool |-> None, task_id |-> 0, result |-> None, warning |-> FALSE,
     old_assignee |-> None, old_status |-> None]

\* The statements of create_task_tool that reach the store and may raise:
\* none raises, db.commit() raises, or, after the commit, db.refresh(task)
\* (the query of the assignee that follows it raises to the same effect)
CreateFaults == {None, "db.commit", "db.refresh"}

\* create_task_tool: the priority is validated, the task is inserted with
\* status todo and the assignee_id given (None or a user); an exception is
\* answered by db.rollback() and the error string, which undoes an insert
\* that is not yet committed
create_task_tool(assignee_id, priority, created_by_id, fault) ==
    /\ Cardinality({i \in DOMAIN tasks : tasks[i].created_by_id = created_by_id})
            < MaxNewTasks
    /\ IF priority \notin TaskPriorities
       THEN /\ last' = [NoCall EXCEPT !.tool = "create_task",
                                      !.result = "Error: Invalid priority"]
            /\ UNCHANGED tasks
       ELSE IF fault = "db.commit"
       THEN /\ last' = [NoCall EXCEPT !.tool = "create_task",
                                      !.result = "Error creating task"]
            /\ UNCHANGED tasks
       ELSE /\ tasks' = Append(tasks, NewTask(Len(tasks) + 1, assignee_id, created_by_id, now))
            /\ last' = [NoCall EXCEPT !.tool = "create_task",
                                      !.task_id = Len(tasks) + 1,
                                      !.result = IF fault = "db.refresh"
                                                 THEN "Error creating task"
                                                 ELSE "Task created successfully"]
    /\ UNCHANGED task_comments
    /\ UNCHANGED <<agentVars, clockVars, reportVars>>

\* assign_task_tool whose workload query also counts tasks in review
assign_task_tool_counts_review(task_id, assignee_id) ==
    LET call == [NoCall EXCEPT !.tool = "assign_task", !.task_id = task_id]
        n == Cardinality({i \in DOMAIN tasks :
                tasks[i].assignee_id = assignee_id
                /\ tasks[i].status \in ActiveStatuses \cup {"review"}})
    IN
    /\ IF ~TaskExists(task_id)
       THEN /\ last' = [call EXCEPT !.result = "Error: Task not found"]
            /\ UNCHANGED tasks
       ELSE IF ~UserExists(assignee_id)
       THEN /\ last' = [call EXCEPT !.result = "Error: User not found"]
            /\ UNCHANGED tasks
       ELSE /\ tasks' = [tasks EXCEPT ![task_id] =
                    [@ EXCEPT !.assignee_id = assignee_id,
                              !.status = IF @ = "todo" THEN "in_progress" ELSE @]]
            /\ last' = [call EXCEPT !.result = "Task assigned",
                                    !.warning = (n >= WorkloadLimit),
                                    !.old_assignee = tasks[task_id].assignee_id,
                                    !.old_status = tasks[task_id].status]
    /\ UNCHANGED task_comments
    /\ UNCHANGED <<agentVars, clockVars, reportVars>>

\* assign_task_tool that moves a task to in_progress only on its first
\* assignment
assign_task_tool_first_only(task_id, assignee_id) ==
    LET call == [NoCall EXCEPT !.tool = "assign_task", !.task_id = task_id]
        n == ActiveTasks(assignee_id)
    IN
    /\ IF ~TaskExists(task_id)
       THEN /\ last' = [call EXCEPT !.result = "Error: Task not found"]
            /\ UNCHANGED tasks
       ELSE IF ~UserExists(assignee_id)
       THEN /\ last' = [call EXCEPT !.result = "Error: User not found"]
            /\ UNCHANGED tasks
       ELSE /\ tasks' = [tasks EXCEPT ![task_id] =
                    [@ EXCEPT !.assignee_id = assignee_id,
                              !.status = IF @ = "todo"
                                            /\ tasks[task_id].assignee_id = None
                                         THEN "in_progress" ELSE @]]
            /\ last' = [call EXCEPT !.result = "Task assigned",
                                    !.warning = (n >= WorkloadLimit),
                                    !.old_assignee = tasks[task_id].assignee_id,
                                    !.old_status = tasks[task_id].status]
    /\ UNCHANGED task_comments
    /\ UNCHANGED <<agentVars, clockVars, reportVars>>

\* assign_task_tool: task and assignee are looked up, the assignee's active
\* tasks are counted for the warning, the task is assigned and a todo task
\* moved to in_progress, and the change is committed
assign_task_tool(task_id, assignee_id) ==
    LET call == [NoCall EXCEPT !.tool = "assign_task", !.task_id = task_id]
        n == ActiveTasks(assignee_id)
    IN
    /\ IF ~TaskExists(task_id)
       THEN /\ last' = [call EXCEPT !.result = "Error: Task not found"]
            /\ UNCHANGED tasks
       ELSE IF ~UserExists(assignee_id)
       THEN /\ last' = [call EXCEPT !.result = "Error: User not found"]
            /\ UNCHANGED tasks
       ELSE /\ tasks' = [tasks EXCEPT ![task_id] =
                    [@ EXCEPT !.assignee_id = assignee_id,
                              !.status = IF @ = "todo" THEN "in_progress" ELSE @]]
            /\ last' = [call EXCEPT !.result = "Task assigned",
                                    !.warning = (n >= WorkloadLimit),
                                    !.old_assignee = tasks[task_id].assignee_id,
                                    !.old_status = tasks[task_id].status]
    /\ UNCHANGED task_comments
    /\ UNCHANGED <<agentVars, clockVars, reportVars>>

\* update_task_status_tool: the task is looked up and the status validated; the
\* new status is set and, for completed, completed_at; the completed branch
\* then reads task.clock_in, which class Task does not have: the
\* AttributeError is caught, the session rolled back and an error string
\* returned. Otherwise the comment is added for an assigned task and the
\* change is committed.
update_task_status_tool(task_id, new_status, comment) ==
    LET call == [NoCall EXCEPT !.tool = "update_task_status", !.task_id = task_id]
    IN
    /\ comment # None => Len(task_comments) < MaxComments
    /\ IF ~TaskExists(task_id)
       THEN /\ last' = [call EXCEPT !.result = "Error: Task not found"]
            /\ UNCHANGED <<tasks, task_comments>>
       ELSE IF new_status \notin TaskStatuses
       THEN /\ last' = [call EXCEPT !.result = "Error: Invalid status"]
            /\ UNCHANGED <<tasks, task_comments>>
       ELSE IF new_status = "completed" /\ "clock_in" \notin TaskAttributes
       THEN /\ last' = [call EXCEPT !.result = "Error updating task status"]
            /\ UNCHANGED <<tasks, task_comments>>
       ELSE /\ tasks' = [tasks EXCEPT ![task_id] =
                    [@ EXCEPT !.status = new_status,
                              !.completed_at = IF new_status = "completed"
                                               THEN now ELSE @]]
            /\ task_comments' =
                    IF comment # None /\ tasks[task_id].assignee_id # None
                    THEN Append(task_comments,
                                [task_id |-> task_id,
                                 user_id |-> tasks[task_id].assignee_id,
                                 new_status |-> new_status])
                    ELSE task_comments
            /\ last' = [call EXCEPT !.result = "Task status updated"]
    /\ UNCHANGED <<agentVars, clockVars, reportVars>>

(***************************************************************************)
(* The task endpoints of the HTTP layer (routers/tasks.py). The handlers   *)
(* are coroutines that await nothing: each runs as one step. last records  *)
(* the request answered last, result its status code and detail.           *)
(***************************************************************************)
\* current_user.role not in ["manager", "admin"]
IsEmployee(user_id) == user_id \notin Managers

\* POST /tasks: the priority is validated, the task is inserted with status
\* todo and the caller as creator
create_task(caller, assignee_id, priority) ==
    /\ Cardinality({i \in DOMAIN tasks : tasks[i].created_by_id = caller})
            < MaxNewTasks
    /\ IF priority \notin TaskPriorities
       THEN /\ last' = [NoCall EXCEPT !.tool = "POST /tasks",
                                      !.result = "400 Invalid priority"]
            /\ UNCHANGED tasks
       ELSE /\ tasks' = Append(tasks, NewTask(Len(tasks) + 1, assignee_id, caller, now))
            /\ last' = [NoCall EXCEPT !.tool = "POST /tasks",
                                      !.task_id = Len(tasks) + 1,
                                      !.result = "200"]
    /\ UNCHANGED task_comments
    /\ UNCHANGED <<agentVars, clockVars, reportVars>>

\* PUT /tasks/{task_id} that sets the status without completed_at
update_task_unstamped(caller, task_id, status) ==
    LET call == [NoCall EXCEPT !.tool = "PUT /tasks/{task_id}", !.task_id = task_id]
    IN
    /\ IF ~TaskExists(task_id)
       THEN /\ last' = [call EXCEPT !.result = "404 Task not found"]
            /\ UNCHANGED tasks
       ELSE IF /\ IsEmployee(caller)
               /\ tasks[task_id].assignee_id # caller
               /\ tasks[task_id].created_by_id # caller
       THEN /\ last' = [call EXCEPT !.result = "403 Not authorized"]
            /\ UNCHANGED tasks
       ELSE IF status # None /\ status \notin TaskStatuses
       THEN /\ last' = [call EXCEPT !.result = "400 Invalid status"]
            /\ UNCHANGED tasks
       ELSE /\ tasks' = [tasks EXCEPT ![task_id] =
                    [@ EXCEPT !.status = IF status = None THEN @ ELSE status]]
            /\ last' = [call EXCEPT !.result = "200",
                                    !.old_status = tasks[task_id].status]
    /\ UNCHANGED task_comments
    /\ UNCHANGED <<agentVars, clockVars, reportVars>>

\* PUT /tasks/{task_id}: 404 for an absent task, 403 for an employee who is
\* neither assignee nor creator, 400 for a status that is none; the fields
\* sent are set (status None: the body has no status), completed_at with the
\* status completed, and the change is committed
update_task(caller, task_id, status) ==
    LET call == [NoCall EXCEPT !.tool = "PUT /tasks/{task_id}", !.task_id = task_id]
    IN
    /\ IF ~TaskExists(task_id)
       THEN /\ last' = [call EXCEPT !.result = "404 Task not found"]
            /\ UNCHANGED tasks
       ELSE IF /\ IsEmployee(caller)
               /\ tasks[task_id].assignee_id # caller
               /\ tasks[task_id].created_by_id # caller
       THEN /\ last' = [call EXCEPT !.result = "403 Not authorized"]
            /\ UNCHANGED tasks
       ELSE IF status # None /\ status \notin TaskStatuses
       THEN /\ last' = [call EXCEPT !.result = "400 Invalid status"]
            /\ UNCHANGED tasks
       ELSE /\ tasks' = [tasks EXCEPT ![task_id] =
                    [@ EXCEPT !.status = IF status = None THEN @ ELSE status,
                              !.completed_at = IF status = "completed" THEN now ELSE @]]
            /\ last' = [call EXCEPT !.result = "200",
                                    !.old_status = tasks[task_id].status]
    /\ UNCHANGED task_comments
    /\ UNCHANGED <<agentVars, clockVars, reportVars>>

\* POST /tasks/{task_id}/assign: 404 for an absent task, 403 for an employee
\* who is not the creator, 404 for an absent assignee; the assignee is set and
\* a todo task becomes in_progress
assign_task(caller, task_id, assignee_id) ==
    LET call == [NoCall EXCEPT !.tool = "POST /tasks/{task_id}/assign",
                               !.task_id = task_id]
    IN
    /\ IF ~TaskExists(task_id)
       THEN /\ last' = [call EXCEPT !.result = "404 Task not found"]
            /\ UNCHANGED tasks
       ELSE IF IsEmployee(caller) /\ tasks[task_id].created_by_id # caller
       THEN /\ last' = [call EXCEPT !.result = "403 Not authorized"]
            /\ UNCHANGED tasks
       ELSE IF ~UserExists(assignee_id)
       THEN /\ last' = [call EXCEPT !.result = "404 Assignee not found"]
            /\ UNCHANGED tasks
       ELSE /\ tasks' = [tasks EXCEPT ![task_id] =
                    [@ EXCEPT !.assignee_id = assignee_id,
                              !.status = IF @ = "todo" THEN "in_progress" ELSE @]]
            /\ last' = [call EXCEPT !.result = "200",
                                    !.old_assignee = tasks[task_id].assignee_id,
                                    !.old_status = tasks[task_id].status]
    /\ UNCHANGED task_comments
    /\ UNCHANGED <<agentVars, clockVars, reportVars>>

(***************************************************************************)
(* Report tools                                                            *)
(***************************************************************************)
\* timedelta(days=1), in seconds
SecondsPerDay == 86400

\* A start_date / end_date argument is the number of its day, or BadDate for a
\* string that is not a date in the format %Y-%m-%d (strptime raises ValueError)
BadDate == -2

\* datetime.strptime(date, "%Y-%m-%d"): 00:00:00 of that day
strptime(date) == date * SecondsPerDay

\* datetime.date() of a timestamp
DateOf(t) == t \div SecondsPerDay

\* date.weekday(); day 0 of the model is a Monday
Weekday(day) == day % 7

\* User.department
UserDepartment(user_id) == IF user_id = "u1" THEN "engineering" ELSE "operations"

\* generated_by_id=1, "System generated": the first row of table users
SystemUserId == "u1"

\* the first second of the day that counts as a late arrival: hour > 9 or
\* (hour == 9 and minute > 15)
LateFrom == 33360

\* What a report tool call was given and what it returned: kind is "report"
\* for the formatted text, "none_found" for the "No ... found" text and
\* "error" for an "Error ..." text; row is the id of the Report it persisted
NoReportCall ==
    [tool |-> None, start_date |-> 0, end_date |-> 0, user_id |-> None,
     department |-> None, kind |-> None, row |-> 0]

\* No POST /reports/generate request yet. before is the number of rows of
\* reports when the request arrived; report_id is the field of the response
\* body (NULL: null)
NoReportRequest ==
    [pc |-> "idle", caller |-> None, report_type |-> None, start_date |-> 0,
     end_date |-> 0, user_id |-> None, before |-> 0, status_code |-> 0,
     report_id |-> NULL]

\* The Report row a tool constructs
NewReport(id, type, generated_by_id, date_from, date_to, content) ==
    [id |-> id, type |-> type, generated_by_id |-> generated_by_id,
     date_from |-> date_from, date_to |-> date_to, content |-> content]

\* sum of record.total_hours over the records, in hundredths of an hour; a
\* record whose total_hours is None or 0 adds nothing
RECURSIVE SumHours(_)
SumHours(ids) ==
    IF ids = {} THEN 0
    ELSE LET i == CHOOSE j \in ids : TRUE
             h == clock_records[i].total_hours
         IN  (IF h = NULL THEN 0 ELSE h) + SumHours(ids \ {i})

\* The records generate_attendance_report_tool's query returns
AttendanceRecords(start, end, user_id, department) ==
    {i \in DOMAIN clock_records :
        /\ clock_records[i].clock_in >= start
        /\ clock_records[i].clock_in <= end + SecondsPerDay
        /\ user_id # None => clock_records[i].user_id = user_id
        /\ department # None => UserDepartment(clock_records[i].user_id) = department}

\* user_data of generate_attendance_report_tool
AttendanceSummary(ids) ==
    [u \in {clock_records[i].user_id : i \in ids} |->
        LET mine == {i \in ids : clock_records[i].user_id = u}
        IN  [department |-> UserDepartment(u),
             days_worked |-> Cardinality(mine),
             total_hours |-> SumHours(mine),
             late_arrivals |-> Cardinality({i \in mine :
                    clock_records[i].clock_in % SecondsPerDay >= LateFrom})]]

\* generate_attendance_report_tool that persists a Report also when no record
\* matches
generate_attendance_report_tool_always_saves(start_date, end_date, user_id, department) ==
    LET call == [NoReportCall EXCEPT !.tool = "generate_attendance_report",
                                     !.start_date = start_date,
                                     !.end_date = end_date,
                                     !.user_id = user_id,
                                     !.department = department]
        start == strptime(start_date)
        end == strptime(end_date)
        records == AttendanceRecords(start, end, user_id, department)
    IN
    /\ Len(reports) < MaxReports
    /\ IF start_date = BadDate \/ end_date = BadDate
       THEN /\ rep' = [call EXCEPT !.kind = "error"]
            /\ UNCHANGED reports
       ELSE /\ reports' = Append(reports,
                    NewReport(Len(reports) + 1, "attendance", SystemUserId, start, end,
                              [summary |-> AttendanceSummary(records),
                               total_hours |-> SumHours(records),
                               employee_count |->
                                   Cardinality(DOMAIN AttendanceSummary(records))]))
            /\ rep' = [call EXCEPT !.kind = "report", !.row = Len(reports) + 1]
    /\ UNCHANGED <<gen, agentVars, clockVars, taskVars>>

\* generate_attendance_report_tool: the dates are parsed, the records of the
\* range are queried and filtered; without records the "No attendance records
\* found" text is returned; otherwise the report is formatted, the Report row
\* is added and committed and the text returned. An exception is turned into
\* an "Error generating attendance report" text.
generate_attendance_report_tool(start_date, end_date, user_id, department) ==
    LET call == [NoReportCall EXCEPT !.tool = "generate_attendance_report",
                                     !.start_date = start_date,
                                     !.end_date = end_date,
                                     !.user_id = user_id,
                                     !.department = department]
        start == strptime(start_date)
        end == strptime(end_date)
        records == AttendanceRecords(start, end, user_id, department)
    IN
    /\ Len(reports) < MaxReports
    /\ IF start_date = BadDate \/ end_date = BadDate
       THEN /\ rep' = [call EXCEPT !.kind = "error"]
            /\ UNCHANGED reports
       ELSE IF records = {}
       THEN /\ rep' = [call EXCEPT !.kind = "none_found"]
            /\ UNCHANGED reports
       ELSE /\ reports' = Append(reports,
                    NewReport(Len(reports) + 1, "attendance", SystemUserId, start, end,
                              [summary |-> AttendanceSummary(records),
                               total_hours |-> SumHours(records),
                               employee_count |->
                                   Cardinality(DOMAIN AttendanceSummary(records))]))
            /\ rep' = [call EXCEPT !.kind = "report", !.row = Len(reports) + 1]
    /\ UNCHANGED <<gen, agentVars, clockVars, taskVars>>

\* The tasks generate_task_report_tool's query returns
ReportedTasks(start, end, user_id) ==
    {i \in DOMAIN tasks :
        /\ tasks[i].created_at >= start
        /\ tasks[i].created_at <= end + SecondsPerDay
        /\ user_id # None => tasks[i].assignee_id = user_id}

\* stats of generate_task_report_tool (completion_rate in tenths of a percent);
\* the counts by priority and of overdue tasks are not modelled
TaskStats(ids) ==
    LET completed == Cardinality({i \in ids : tasks[i].status = "completed"})
    IN  [total |-> Cardinality(ids),
         completed |-> completed,
         in_progress |-> Cardinality({i \in ids : tasks[i].status = "in_progress"}),
         todo |-> Cardinality({i \in ids : tasks[i].status = "todo"}),
         completion_rate |-> Round2(completed * 10, Cardinality(ids))]

\* generate_task_report_tool: as the attendance report, over the tasks created
\* in the range
generate_task_report_tool(start_date, end_date, user_id) ==
    LET call == [NoReportCall EXCEPT !.tool = "generate_task_report",
                                     !.start_date = start_date,
                                     !.end_date = end_date,
                                     !.user_id = user_id]
        start == strptime(start_date)
        end == strptime(end_date)
        found == ReportedTasks(start, end, user_id)
    IN
    /\ Len(reports) < MaxReports
    /\ IF start_date = BadDate \/ end_date = BadDate
       THEN /\ rep' = [call EXCEPT !.kind = "error"]
            /\ UNCHANGED reports
       ELSE IF found = {}
       THEN /\ rep' = [call EXCEPT !.kind = "none_found"]
            /\ UNCHANGED reports
       ELSE /\ reports' = Append(reports,
                    NewReport(Len(reports) + 1, "task", SystemUserId, start, end,
                              TaskStats(found)))
            /\ rep' = [call EXCEPT !.kind = "report", !.row = Len(reports) + 1]
    /\ UNCHANGED <<gen, agentVars, clockVars, taskVars>>

\* generate_weekly_summary_tool: the user is looked up; the week of today is
\* Monday to Sunday; the user's records and tasks of the week are queried, the
\* summary is formatted, the Report row is added and committed
generate_weekly_summary_tool(user_id) ==
    LET call == [NoReportCall EXCEPT !.tool = "generate_weekly_summary",
                                     !.user_id = user_id]
        today == DateOf(now)
        start_of_week == today - Weekday(today)
        end_of_week == start_of_week + 6
        records == {i \in DOMAIN clock_records :
                        /\ clock_records[i].user_id = user_id
                        /\ clock_records[i].clock_in >= strptime(start_of_week)
                        /\ clock_records[i].clock_in
                                <= strptime(end_of_week) + SecondsPerDay}
        completed_tasks == {i \in DOMAIN tasks :
                        /\ tasks[i].assignee_id = user_id
                        /\ tasks[i].status = "completed"
                        /\ tasks[i].completed_at # NULL
                        /\ tasks[i].completed_at >= strptime(start_of_week)
                        /\ tasks[i].completed_at
                                <= strptime(end_of_week) + SecondsPerDay}
        active_tasks == {i \in DOMAIN tasks :
                        /\ tasks[i].assignee_id = user_id
                        /\ tasks[i].status \in ActiveStatuses}
    IN
    /\ Len(reports) < MaxReports
    /\ IF ~UserExists(user_id)
       THEN /\ rep' = [call EXCEPT !.kind = "error"]
            /\ UNCHANGED reports
       ELSE /\ reports' = Append(reports,
                    NewReport(Len(reports) + 1, "weekly", user_id,
                              strptime(start_of_week), strptime(end_of_week),
                              [hours_worked |-> SumHours(records),
                               days_worked |-> Cardinality(
                                    {DateOf(clock_records[i].clock_in) : i \in records}),
                               tasks_completed |-> Cardinality(completed_tasks),
                               active_tasks |-> Cardinality(active_tasks)]))
            /\ rep' = [call EXCEPT !.kind = "report", !.row = Len(reports) + 1]
    /\ UNCHANGED <<gen, agentVars, clockVars, taskVars>>

(***************************************************************************)
(* POST /reports/generate                                                  *)
(***************************************************************************)
\* action_map of generate_report
ReportActions ==
    [attendance |-> "generate_attendance_report",
     task       |-> "generate_task_report",
     weekly     |-> "generate_weekly_summary"]

\* db.query(Report).filter(Report.generated_by_id == current_user.id)
\*   .order_by(Report.created_at.desc()).first(): the id of the row, NULL if
\* there is none (created_at grows with the id)
LatestReportId(user_id) ==
    LET mine == {i \in DOMAIN reports : reports[i].generated_by_id = user_id}
    IN  IF mine = {} THEN NULL ELSE CHOOSE i \in mine : \A j \in mine : j <= i

\* generate_report up to its await of execute_action: an unknown report type
\* is answered 400; a weekly report takes user_id from the filters, or is
\* about the caller
generate_report(caller, report_type, start_date, end_date, user_id) ==
    /\ gen.pc \in {"idle", "done"}
    /\ LET request == [NoReportRequest EXCEPT !.caller = caller,
                                              !.report_type = report_type,
                                              !.start_date = start_date,
                                              !.end_date = end_date,
                                              !.before = Len(reports)]
       IN  gen' = IF report_type \notin DOMAIN ReportActions
                  THEN [request EXCEPT !.pc = "done", !.status_code = 400]
                  ELSE [request EXCEPT !.pc = "running",
                                       !.user_id = IF report_type = "weekly"
                                                   THEN IF user_id = None
                                                        THEN caller ELSE user_id
                                                   ELSE user_id]
    /\ UNCHANGED <<reports, rep>>
    /\ UNCHANGED <<agentVars, clockVars, taskVars>>

\* generate_report after execute_action returned: 500 if the envelope says
\* success false, else the latest report of the caller is looked up
generate_report_return(success) ==
    /\ gen.pc = "running"
    /\ gen' = IF ~success
              THEN [gen EXCEPT !.pc = "done", !.status_code = 500]
              ELSE [gen EXCEPT !.pc = "done", !.status_code = 200,
                               !.report_id = LatestReportId(gen.caller)]
    /\ UNCHANGED <<reports, rep>>
    /\ UNCHANGED <<agentVars, clockVars, taskVars>>

(***************************************************************************)
(* Specification of the agent pipeline                                     *)
(***************************************************************************)
AgentInit ==
    /\ initialized = FALSE
    /\ agents = {}
    /\ rag_retriever = None
    /\ memory = {}
    /\ constructed = 0
    /\ mgr = NoLifecycle
    /\ agent_actions = <<>>
    /\ open_sessions = {}
    /\ ex = [c \in ExecCalls |-> IdleCall]
    /\ ov = [r \in OverrideReqs |-> IdleOverride]
    /\ view = NoView

ClockInit ==
    /\ clock_records = <<>>
    /\ ck = [k \in ClockCalls |-> IdleClock]
    /\ now = 0

TaskInit ==
    /\ tasks = <<>>
    /\ task_comments = <<>>
    /\ last = NoCall

ReportInit ==
    /\ reports = <<>>
    /\ rep = NoReportCall
    /\ gen = NoReportRequest

\* The manager after the startup of the application called initialize
ManagerStarted ==
    /\ initialized = TRUE
    /\ agents = RegistryKeys
    /\ rag_retriever = "RAGRetriever"
    /\ memory = {}
    /\ constructed = 1
    /\ mgr = [op |-> "initialize", result |-> "constructed", by |-> "lifespan"]

Init == AgentInit /\ ClockInit /\ TaskInit /\ ReportInit

Next ==
    \/ \E c \in ExecCalls, t \in AgentTypes, u \in Callers, ok \in BOOLEAN :
            execute_action(c, t, u, ok)
    \/ \E c \in ExecCalls, o \in Outcomes : agent_execute(c, o)
    \/ \E c \in ExecCalls, ok \in BOOLEAN : save_action(c, ok)
    \/ \E c \in ExecCalls : close_session(c)

Spec == Init /\ [][Next]_vars

(***************************************************************************)
(* Specification of the override endpoint: the manager is initialized and  *)
(* agent_actions holds rows that earlier execute_action calls logged       *)
(***************************************************************************)
\* The row an earlier call by user_id logged for an agent run with this outcome
LoggedRow(id, key, outcome, user_id) ==
    NewAgentAction(id, AgentName(key),
                   IF outcome = "ok" THEN SuccessResult(AgentName(key))
                                     ELSE ErrorResult(AgentName(key), outcome),
                   user_id)

OverrideInit ==
    /\ ClockInit
    /\ ManagerStarted
    /\ \E n \in 1..NumRows, u \in Callers, o \in Outcomes :
            agent_actions = [i \in 1..n |-> LoggedRow(i, "clock", o, u)]
    /\ open_sessions = {}
    /\ ex = [c \in ExecCalls |-> IdleCall]
    /\ ov = [r \in OverrideReqs |-> IdleOverride]
    /\ view = NoView
    /\ TaskInit
    /\ ReportInit

OverrideNext ==
    \/ \E r \in OverrideReqs, a \in ActionIds, m \in Managers, x \in Reasons,
          p \in CorrectiveActions :
            override_agent_action(r, a, m, x, p)
    \/ \E r \in OverrideReqs : override_commit(r)

OverrideSpec == OverrideInit /\ [][OverrideNext]_vars

(***************************************************************************)
(* Specification of POST /agents/execute: concurrent requests to a manager *)
(* that was initialized at startup                                         *)
(***************************************************************************)
EndpointInit ==
    /\ ManagerStarted
    /\ agent_actions = <<>>
    /\ open_sessions = {}
    /\ ex = [c \in ExecCalls |-> IdleCall]
    /\ ov = [r \in OverrideReqs |-> IdleOverride]
    /\ view = NoView
    /\ ClockInit
    /\ TaskInit
    /\ ReportInit

\* agent_type values of the requests: a registry key and one other
RequestAgentTypes == {"clock", "billing"}

EndpointNext ==
    \/ \E c \in ExecCalls, t \in RequestAgentTypes, u \in Callers :
            execute_action(c, t, u, TRUE)
    \/ \E c \in ExecCalls, o \in Outcomes : agent_execute(c, o)
    \/ \E c \in ExecCalls, ok \in BOOLEAN : save_action(c, ok)
    \/ \E c \in ExecCalls : close_session(c)
    \/ \E c \in ExecCalls : execute_agent_action(c)

EndpointSpec == EndpointInit /\ [][EndpointNext]_vars

(***************************************************************************)
(* Specification of the audit log: over rows logged earlier, one execute   *)
(* request and one override request interleave with each other and with    *)
(* the read endpoints                                                      *)
(***************************************************************************)
\* callers of the read endpoints: an employee and a manager
ReadCallers == {"u1", "u2"}
\* agent_type filters of the history: none, and a registry key
AgentFilters == {None, "clock"}

AuditNext ==
    \/ \E t \in RequestAgentTypes, u \in Callers : execute_action(1, t, u, TRUE)
    \/ \E o \in Outcomes : agent_execute(1, o)
    \/ \E ok \in BOOLEAN : save_action(1, ok)
    \/ close_session(1)
    \/ \E a \in ActionIds, m \in Managers, x \in Reasons, p \in CorrectiveActions :
            override_agent_action(1, a, m, x, p)
    \/ override_commit(1)
    \/ \E u \in ReadCallers, t \in AgentFilters, s \in BOOLEAN, limit \in {1, 50} :
            get_agent_actions(u, t, s, limit, 0)
    \/ \E u \in ReadCallers, a \in ActionIds : get_agent_action_detail(u, a)

AuditSpec == OverrideInit /\ [][AuditNext]_vars

(***************************************************************************)
(* Specification of the lifecycle of the manager: calls of execute_action  *)
(* on a manager that is not initialized, with direct calls of initialize   *)
(* and of cleanup at any time                                              *)
(***************************************************************************)
\* the calls of execute_action of this specification
LazyCalls == {1, 2}
\* how their agent runs end
RunOutcomes == {"ok", "LLM request failed"}

ManagerNext ==
    \/ \E c \in LazyCalls, t \in RequestAgentTypes, ok \in BOOLEAN :
            execute_action(c, t, "u1", ok)
    \/ \E c \in LazyCalls, o \in RunOutcomes : agent_execute(c, o)
    \/ \E c \in LazyCalls : save_action(c, TRUE)
    \/ \E c \in LazyCalls : close_session(c)
    \/ \E ok \in BOOLEAN : initialize(ok)
    \/ cleanup

ManagerSpec == Init /\ [][ManagerNext]_vars

(***************************************************************************)
(* Specification of agent runs that call a tool: each call of              *)
(* execute_action reaches the clock agent, whose run may call              *)
(* clock_in_tool before it ends; the tool works in a session of its own    *)
(* (clock_tools.py:22), the audit row is written in the session that       *)
(* execute_action opened                                                   *)
(***************************************************************************)
\* the calls of execute_action of this specification; the run of call c makes
\* the tool call c
ToolRuns == {1, 2}

\* The run of call c is suspended in the agent, which may call a tool
InRun(c) == ex[c].pc = "running"

ToolRunInit ==
    /\ ManagerStarted
    /\ agent_actions = <<>>
    /\ open_sessions = {}
    /\ ex = [c \in ExecCalls |-> IdleCall]
    /\ ov = [r \in OverrideReqs |-> IdleOverride]
    /\ view = NoView
    /\ ClockInit
    /\ TaskInit
    /\ ReportInit

ToolRunNext ==
    \/ \E c \in ToolRuns : execute_action(c, "clock", "u1", TRUE)
    \/ \E c \in ToolRuns, u \in {"u1", "u2"} : InRun(c) /\ clock_in_tool(c, u)
    \/ \E c \in ToolRuns, ok \in BOOLEAN : InRun(c) /\ clock_in_commit(c, ok)
    \/ \E c \in ToolRuns, o \in RunOutcomes :
            ck[c].pc \in {"idle", "done"} /\ agent_execute(c, o)
    \/ \E c \in ToolRuns, ok \in BOOLEAN : save_action(c, ok)
    \/ \E c \in ToolRuns : close_session(c)

ToolRunSpec == ToolRunInit /\ [][ToolRunNext]_vars

(***************************************************************************)
(* Specification of the clock tools                                        *)
(***************************************************************************)
ClockNext ==
    \/ \E k \in ClockCalls, u \in ClockUserInputs : clock_in_tool(k, u)
    \/ \E k \in ClockCalls : clock_in_commit(k, TRUE)
    \/ \E k \in ClockCalls, u \in ClockUserInputs : clock_out_tool(k, u)
    \/ \E k \in ClockCalls : clock_out_commit(k)
    \/ \E d \in TickSteps : Tick(d)

ClockSpec == Init /\ [][ClockNext]_vars

(***************************************************************************)
(* Specification of a clock-out at the end of a shift: a user is clocked   *)
(* in, and clock_out_tool is called some seconds, hours or a day later     *)
(***************************************************************************)
\* clock-in times of the open record
ShiftStarts == {0, 36000}
\* seconds between the clock-in and the clock-out calls: around the first
\* hundredths of an hour, half an hour, eight hours and a day, exact or not
ShiftDurations ==
    (0..MaxShiftSeconds) \cup {1800, 28799, 28800, 28801, 28818, 86400}

ShiftInit ==
    /\ AgentInit
    /\ TaskInit
    /\ ReportInit
    /\ ck = [k \in ClockCalls |-> IdleClock]
    /\ \E s \in ShiftStarts, d \in ShiftDurations :
            /\ clock_records = << NewClockRecord(1, "u1", s) >>
            /\ now = s + d

ShiftNext ==
    \/ \E k \in ClockCalls, u \in ClockUserInputs : clock_out_tool(k, u)
    \/ \E k \in ClockCalls : clock_out_commit(k)

ShiftSpec == ShiftInit /\ [][ShiftNext]_vars

(***************************************************************************)
(* Specification of the task tools. The store starts with a backlog that   *)
(* manager u3 created through POST /tasks and assigned to u1, all of it in *)
(* progress or all of it moved to review (PUT /tasks/{id}); the tool calls *)
(* of the run create tasks as u1 and work on those.                        *)
(***************************************************************************)
Backlog(n, status) ==
    [i \in 1..n |-> [NewTask(i, "u1", "u3", 0) EXCEPT !.status = status]]

TaskSpecInit ==
    /\ AgentInit
    /\ ClockInit
    /\ \E n \in {WorkloadLimit - 1, WorkloadLimit}, st \in {"in_progress", "review"} :
            tasks = Backlog(n, st)
    /\ task_comments = <<>>
    /\ last = NoCall
    /\ ReportInit

\* task_id arguments of the run: the tasks created in it and one absent id
TaskIdInputs ==
    {i \in DOMAIN tasks : tasks[i].created_by_id = "u1"} \cup {Len(tasks) + 1}

TaskNext ==
    \/ \E a \in {None} \cup TaskUserInputs, p \in {"medium", "asap"},
          f \in CreateFaults :
            create_task_tool(a, p, "u1", f)
    \/ \E t \in TaskIdInputs, a \in TaskUserInputs : assign_task_tool(t, a)
    \/ \E t \in TaskIdInputs, st \in StatusInputs, c \in {None, "note"} :
            update_task_status_tool(t, st, c)

TaskSpec == TaskSpecInit /\ [][TaskNext]_vars

(***************************************************************************)
(* Specification of the task tools and the task endpoints over one store   *)
(* that is empty at first                                                  *)
(***************************************************************************)
\* callers of the task endpoints: an employee and a manager
TaskCallers == {"u1", "u2"}
\* status values of PUT /tasks/{task_id}: none sent, statuses, another word
StatusUpdates == {None, "todo", "review", "completed", "done"}

TaskApiNext ==
    \/ \E a \in {None, "u2"}, f \in CreateFaults : create_task_tool(a, "medium", "u1", f)
    \/ \E t \in TaskIdInputs, a \in {"u1", "u2", "u9"} : assign_task_tool(t, a)
    \/ \E t \in TaskIdInputs, st \in StatusInputs : update_task_status_tool(t, st, None)
    \/ \E a \in {None, "u2"}, p \in {"medium", "asap"} : create_task("u1", a, p)
    \/ \E u \in TaskCallers, t \in TaskIdInputs, st \in StatusUpdates :
            update_task(u, t, st)
    \/ \E u \in TaskCallers, t \in TaskIdInputs, a \in {"u1", "u9"} :
            assign_task(u, t, a)

TaskApiSpec == Init /\ [][TaskApiNext]_vars

(***************************************************************************)
(* Specification of the report tools: the stores hold attendance records   *)
(* and tasks of the current week, written earlier by the clock tools and   *)
(* the task tools and endpoints                                            *)
(***************************************************************************)
\* clock-in times of the stored records: 10:00 of day 0, and 00:00:00 of day 2
ClockInTimes == {36000, 2 * SecondsPerDay}

\* A stored record: still open, or closed after eight hours
StoredRecord(id, user_id, clock_in, closed) ==
    IF closed
    THEN [NewClockRecord(id, user_id, clock_in) EXCEPT
                !.clock_out = clock_in + 8 * 3600,
                !.status = "clocked_out",
                !.total_hours = HoursWorked(clock_in, clock_in + 8 * 3600)]
    ELSE NewClockRecord(id, user_id, clock_in)

\* Stored tasks: one completed on day 0, one created at 00:00:00 of day 2
StoredTasks ==
    << [NewTask(1, "u1", "u3", 36000) EXCEPT !.status = "completed",
                                             !.completed_at = 72000],
       NewTask(2, "u2", "u3", 2 * SecondsPerDay) >>

\* the time of the run: 12:00 of day 2
ReportTime == 2 * SecondsPerDay + 43200

ReportSpecInit ==
    /\ AgentInit
    /\ \E n \in 0..NumAttendance :
       \E f \in [1..n ->
                    [user_id : {"u1", "u2"}, clock_in : ClockInTimes, closed : BOOLEAN]] :
            clock_records = [i \in 1..n |->
                    StoredRecord(i, f[i].user_id, f[i].clock_in, f[i].closed)]
    /\ ck = [k \in ClockCalls |-> IdleClock]
    /\ now = ReportTime
    /\ tasks \in {<<>>, StoredTasks}
    /\ task_comments = <<>>
    /\ last = NoCall
    /\ ReportInit

\* date arguments: day 0, day 1 and a string that is no date
DateInputs == {0, 1, BadDate}

ReportNext ==
    \/ \E s \in DateInputs, e \in DateInputs, u \in {None, "u1"},
          d \in {None, "engineering"} :
            generate_attendance_report_tool(s, e, u, d)
    \/ \E s \in DateInputs, e \in DateInputs, u \in {None, "u1"} :
            generate_task_report_tool(s, e, u)
    \/ \E u \in {"u1", "u9"} : generate_weekly_summary_tool(u)

ReportSpec == ReportSpecInit /\ [][ReportNext]_vars

(***************************************************************************)
(* Specification of POST /reports/generate: one request at a time; while   *)
(* the request awaits the report agent, the run of the agent calls the     *)
(* report tool of the requested action with the parameters of the request  *)
(***************************************************************************)
\* report_type values of the requests: the three types and one other
ReportTypes == {"attendance", "task", "weekly", "daily"}

\* end_date of the requests (start_date is day 0)
RequestDates == {0, 1}

\* The request in flight asks for this action
Requested(action) ==
    /\ gen.pc = "running"
    /\ ReportActions[gen.report_type] = action

\* The store when the requests arrive: a closed record of u1 and two tasks
ReportApiInit ==
    /\ AgentInit
    /\ clock_records = << StoredRecord(1, "u1", 36000, TRUE) >>
    /\ ck = [k \in ClockCalls |-> IdleClock]
    /\ now = ReportTime
    /\ tasks = StoredTasks
    /\ task_comments = <<>>
    /\ last = NoCall
    /\ ReportInit

ReportApiNext ==
    \/ \E u \in Callers, t \in ReportTypes, e \in RequestDates, f \in {None, "u1"} :
            generate_report(u, t, 0, e, f)
    \/ /\ Requested("generate_attendance_report")
       /\ generate_attendance_report_tool(gen.start_date, gen.end_date,
                                           gen.user_id, None)
    \/ /\ Requested("generate_task_report")
       /\ generate_task_report_tool(gen.start_date, gen.end_date, gen.user_id)
    \/ /\ Requested("generate_weekly_summary")
       /\ generate_weekly_summary_tool(gen.user_id)
    \/ \E ok \in BOOLEAN : generate_report_return(ok)

ReportApiSpec == ReportApiInit /\ [][ReportApiNext]_vars

(***************************************************************************)
(* Claims about execute_action (checked under Spec)                        *)
(***************************************************************************)
\* execute_action call c has returned its envelope
Returned(c) == ex[c].pc = "returned"

\* the rows of agent_actions that call c committed
RowsCommittedBy(c) == {i \in DOMAIN agent_actions : i \in ex[c].rows}

\* C1 as stated: every execute_action call with a registered agent_type has
\* committed exactly one AgentAction row by the time it returns, whether the
\* agent run succeeded or raised.
C1_ExactlyOneRow ==
    \A c \in ExecCalls :
        (Returned(c) /\ ex[c].agent_type \in RegistryKeys)
            => Cardinality(RowsCommittedBy(c)) = 1

\* C1 amended: every execute_action call with a registered agent_type has, by
\* the time it returns, attempted the audit write exactly once, whether the
\* agent run succeeded or raised; it has committed exactly one AgentAction row
\* (carrying the call's agent name, actor and success flag) when that write
\* succeeded and no row when the write raised and was rolled back.
C1_OneRowUnlessAuditFails ==
    \A c \in ExecCalls :
        (Returned(c) /\ ex[c].agent_type \in RegistryKeys)
            => /\ ex[c].audit \in {"committed", "rolled_back"}
               /\ ex[c].audit = "committed" =>
                    /\ Cardinality(RowsCommittedBy(c)) = 1
                    /\ \A i \in RowsCommittedBy(c) :
                          /\ agent_actions[i].agent_name = AgentName(ex[c].agent_type)
                          /\ agent_actions[i].user_id = ex[c].user_id
                          /\ agent_actions[i].success = ex[c].result.success
               /\ ex[c].audit = "rolled_back" => RowsCommittedBy(c) = {}

\* Two calls have returned, one whose agent run succeeded and one whose agent
\* run raised, and each has its one row in agent_actions
C1_Witness ==
    \E c, d \in ExecCalls :
        /\ Returned(c) /\ ex[c].agent_type \in RegistryKeys
        /\ Returned(d) /\ ex[d].agent_type \in RegistryKeys
        /\ ex[c].result.success /\ ~ex[d].result.success
        /\ Cardinality(RowsCommittedBy(c)) = 1
        /\ Cardinality(RowsCommittedBy(d)) = 1
        /\ Len(agent_actions) = 2

Arrives(r) == ov[r].pc = "idle" /\ ov'[r].pc # "idle"

\* override request r commits in this step
Commits(r) == ov[r].pc = "commit" /\ ov'[r].pc = "done"

\* C3: of two successive override requests on an existing row, the first (it
\* reads and commits while the row is not overridden) succeeds and sets
\* overridden=true with its caller as overridden_by and its reason as
\* override_reason; the second (it arrives when the row is overridden) is
\* answered 400 "already overridden" and leaves the row as the first set it.
C3_OverrideTwice ==
    [][\A r \in OverrideReqs :
        /\ (Arrives(r) /\ ActionExists(ov'[r].action_id)
                /\ ~agent_actions[ov'[r].action_id].overridden)
            => ov'[r].pc = "commit"
        /\ (Commits(r) /\ ~agent_actions[ov[r].action_id].overridden)
            => /\ ov'[r].status_code = 200
               /\ agent_actions' = [agent_actions EXCEPT ![ov[r].action_id] =
                      [@ EXCEPT !.overridden = TRUE,
                                !.overridden_by_id = ov[r].user_id,
                                !.override_reason = ov[r].reason]]
        /\ (Arrives(r) /\ ActionExists(ov'[r].action_id)
                /\ agent_actions[ov'[r].action_id].overridden)
            => /\ ov'[r].pc = "done"
               /\ ov'[r].status_code = 400
               /\ agent_actions' = agent_actions
      ]_vars

\* A first request was answered 200 and a second one, by another manager with
\* another reason, 400; the row holds the first one's caller and reason
C3_Witness ==
    \E p, q \in OverrideReqs :
        /\ ov[p].status_code = 200 /\ ov[q].status_code = 400
        /\ ov[p].action_id = ov[q].action_id
        /\ ov[p].user_id # ov[q].user_id /\ ov[p].reason # ov[q].reason
        /\ agent_actions[ov[p].action_id].overridden
        /\ agent_actions[ov[p].action_id].overridden_by_id = ov[p].user_id
        /\ agent_actions[ov[p].action_id].override_reason = ov[p].reason

\* C4 as stated: under every interleaving of concurrent override requests on
\* one row, at most one request reports success, and overridden_by and
\* override_reason stay those of the request that succeeded (they are never
\* overwritten once set).
C4_OverrideExactlyOnce ==
    \A r \in OverrideReqs :
        ov[r].status_code = 200
            => /\ agent_actions[ov[r].action_id].overridden_by_id = ov[r].user_id
               /\ agent_actions[ov[r].action_id].override_reason = ov[r].reason
               /\ \A q \in OverrideReqs \ {r} :
                    ov[q].action_id = ov[r].action_id => ov[q].status_code # 200

(***************************************************************************)
(* Claims about the clock tools (checked under ClockSpec)                  *)
(***************************************************************************)
\* clock tool call k starts in this step, as a call of tool for user_id
ToolArrives(k, tool, user_id) ==
    /\ ck[k].pc = "idle" /\ ck'[k].pc # "idle"
    /\ ck'[k].tool = tool /\ ck'[k].user_id = user_id

\* clock tool call k commits and returns in this step
ToolCommits(k, tool) ==
    /\ ck[k].tool = tool /\ ck[k].pc \in {"insert", "update"} /\ ck'[k].pc = "done"

\* C5: for an existing user with no open clock record, clock_in_tool creates
\* exactly one open record for that user; a further clock_in_tool call for the
\* same user before a clock_out_tool call (it finds the open record) returns
\* the "already clocked in" error string and creates no record.
C5_ClockInOnce ==
    [][\A k \in ClockCalls, u \in UserIds :
        /\ (ToolArrives(k, "clock_in", u) /\ OpenRecords(clock_records, u) = {})
            => /\ ck'[k].pc = "insert"
               /\ clock_records' = clock_records
        /\ (ToolCommits(k, "clock_in") /\ ck[k].user_id = u)
            => /\ ck'[k].result = "Successfully clocked in"
               /\ Len(clock_records') = Len(clock_records) + 1
               /\ SubSeq(clock_records', 1, Len(clock_records)) = clock_records
               /\ OpenRecords(clock_records', u) =
                    OpenRecords(clock_records, u) \cup {Len(clock_records')}
               /\ clock_records'[Len(clock_records')].clock_in = ck[k].stamp
        /\ (ToolArrives(k, "clock_in", u) /\ OpenRecords(clock_records, u) # {})
            => /\ ck'[k].pc = "done"
               /\ ck'[k].result = "Error: already clocked in"
               /\ clock_records' = clock_records
      ]_vars

\* A clock_in_tool call created the one open record of its user, and a further
\* clock_in_tool call for that user returned the error and created nothing
C5_Witness ==
    \E k, j \in ClockCalls :
        /\ ck[k].pc = "done" /\ ck[k].result = "Successfully clocked in"
        /\ ck[j].pc = "done" /\ ck[j].result = "Error: already clocked in"
        /\ ck[j].tool = "clock_in" /\ ck[j].user_id = ck[k].user_id
        /\ OpenRecords(clock_records, ck[k].user_id) = {ck[k].loaded}
        /\ Len(clock_records) = 1

\* C6 as stated: in every reachable state, also under interleavings of the
\* check step and the insert/commit step of concurrent clock_in_tool calls,
\* each user has at most one clock record with clock_out unset.
C6_AtMostOneOpenRecord ==
    \A u \in UserIds : Cardinality(OpenRecords(clock_records, u)) <= 1

\* C7 as stated: clock_out_tool for a user with no open record returns an
\* error string and leaves every clock record unchanged; for a user with an
\* open record it closes that record (clock_out set, status clocked_out,
\* total_hours stored), after which the user has no open record, so that a
\* following clock_out_tool call fails.
C7_ClockOutCloses ==
    [][\A k \in ClockCalls, u \in UserIds :
        /\ (ToolArrives(k, "clock_out", u) /\ OpenRecords(clock_records, u) = {})
            => /\ ck'[k].pc = "done"
               /\ ck'[k].result = "Error: not currently clocked in"
               /\ clock_records' = clock_records
        /\ (ToolArrives(k, "clock_out", u) /\ OpenRecords(clock_records, u) # {})
            => ck'[k].pc = "update"
        /\ (ToolCommits(k, "clock_out") /\ ck[k].user_id = u)
            => /\ ck'[k].result = "Successfully clocked out"
               /\ clock_records'[ck[k].loaded].clock_out = ck[k].stamp
               /\ clock_records'[ck[k].loaded].status = "clocked_out"
               /\ clock_records'[ck[k].loaded].total_hours # NULL
               /\ OpenRecords(clock_records', u) = {}
      ]_vars

(***************************************************************************)
(* Claims about the task tools (checked under TaskSpec)                    *)
(***************************************************************************)
\* Tasks the user holds in one of the statuses
Holds(user_id, statuses) ==
    Cardinality({i \in DOMAIN tasks :
        tasks[i].assignee_id = user_id /\ tasks[i].status \in statuses})

\* The statuses other than completed and cancelled
NonTerminal == TaskStatuses \ {"completed", "cancelled"}

\* C8: for every existing task, update_task_status_tool called with
\* new_status 'completed' succeeds: afterwards the task's status is completed
\* and completed_at is the time of the call.
C8_CompletedStamps ==
    [][\A t \in DOMAIN tasks, c \in {None, "note"} :
          update_task_status_tool(t, "completed", c)
            => /\ last'.result = "Task status updated"
               /\ tasks'[t].status = "completed"
               /\ tasks'[t].completed_at = now]_vars

\* C9 as stated: assign_task_tool on an existing task and an existing user
\* succeeds, and warns exactly when the assignee holds 10 or more tasks in a
\* non-terminal status at the time of the call.
C9_WarnsOnNonTerminal ==
    [][\A t \in DOMAIN tasks, a \in UserIds :
          assign_task_tool(t, a)
            => /\ last'.result = "Task assigned"
               /\ tasks'[t].assignee_id = a
               /\ last'.warning <=> (Holds(a, NonTerminal) >= WorkloadLimit)]_vars

\* C9 amended: assign_task_tool on an existing task and an existing user
\* succeeds, and warns exactly when the assignee holds 10 or more tasks in
\* status todo or in_progress at the time of the call; tasks in review are not
\* counted.
C9_WarnsOnTodoOrInProgress ==
    [][\A t \in DOMAIN tasks, a \in UserIds :
          assign_task_tool(t, a)
            => /\ last'.result = "Task assigned"
               /\ tasks'[t].assignee_id = a
               /\ last'.warning <=>
                    (Holds(a, {"todo", "in_progress"}) >= WorkloadLimit)]_vars

\* An assignment with a warning has been made
C9_Witness ==
    /\ last.tool = "assign_task"
    /\ last.result = "Task assigned"
    /\ last.warning
    /\ tasks[last.task_id].assignee_id = "u1"

\* C10 as stated: assign_task_tool moves a todo task to in_progress on its
\* first assignment, a task in another status keeps its status, and a task
\* that already has an assignee keeps its status on reassignment.
C10_TransitionOnFirstAssignment ==
    [][\A t \in DOMAIN tasks, a \in UserIds :
          assign_task_tool(t, a)
            => /\ (tasks[t].assignee_id = None /\ tasks[t].status = "todo")
                    => tasks'[t].status = "in_progress"
               /\ tasks[t].status # "todo" => tasks'[t].status = tasks[t].status
               /\ tasks[t].assignee_id # None
                    => tasks'[t].status = tasks[t].status]_vars

\* C10 amended: assign_task_tool moves every todo task to in_progress, whether
\* or not it had an assignee before the call; a task in any other status
\* keeps its status.
C10_TransitionOnTodo ==
    [][\A t \in DOMAIN tasks, a \in UserIds :
          assign_task_tool(t, a)
            => tasks'[t].status = IF tasks[t].status = "todo"
                                  THEN "in_progress"
                                  ELSE tasks[t].status]_vars

\* A todo task that had an assignee has been reassigned and is in progress
C10_Witness ==
    /\ last.tool = "assign_task"
    /\ last.result = "Task assigned"
    /\ last.old_assignee \in UserIds
    /\ last.old_assignee # tasks[last.task_id].assignee_id
    /\ last.old_status = "todo"
    /\ tasks[last.task_id].status = "in_progress"

(***************************************************************************)
(* Claims about the report tools (checked under ReportSpec)                *)
(***************************************************************************)
\* well-formed date arguments
GoodDates == DateInputs \ {BadDate}

\* this step appends exactly one Report of the type and returns the formatted text
PersistsOne(type) ==
    /\ Len(reports') = Len(reports) + 1
    /\ \A i \in DOMAIN reports : reports'[i] = reports[i]
    /\ reports'[Len(reports')].type = type
    /\ rep'.kind = "report"
    /\ rep'.row = Len(reports')

\* this step persists nothing and returns the "No ... found" text
PersistsNone ==
    /\ reports' = reports
    /\ rep'.kind = "none_found"

\* C11 as stated: every call of a report-generation tool with well-formed
\* arguments, for every content of the store, persists exactly one Report row
\* and returns a formatted report text.
C11_AlwaysOneReport ==
    [][/\ \A s \in GoodDates, e \in GoodDates, u \in {None, "u1"},
             d \in {None, "engineering"} :
            generate_attendance_report_tool(s, e, u, d) => PersistsOne("attendance")
       /\ \A s \in GoodDates, e \in GoodDates, u \in {None, "u1"} :
            generate_task_report_tool(s, e, u) => PersistsOne("task")
       /\ \A u \in UserIds :
            generate_weekly_summary_tool(u) => PersistsOne("weekly")]_vars

\* C11 amended: a call of the attendance or task report tool with well-formed
\* arguments persists exactly one Report row and returns the formatted text
\* when its query selects at least one record, and persists nothing and
\* returns the "No ... found" text when it selects none; a call of the weekly
\* summary tool for an existing user always persists exactly one Report row.
C11_OneReportIfRecordsFound ==
    [][/\ \A s \in GoodDates, e \in GoodDates, u \in {None, "u1"},
             d \in {None, "engineering"} :
            generate_attendance_report_tool(s, e, u, d)
                => IF \E i \in DOMAIN clock_records :
                        /\ clock_records[i].clock_in >= s * SecondsPerDay
                        /\ clock_records[i].clock_in <= (e + 1) * SecondsPerDay
                        /\ u # None => clock_records[i].user_id = u
                        /\ d # None => UserDepartment(clock_records[i].user_id) = d
                   THEN PersistsOne("attendance")
                   ELSE PersistsNone
       /\ \A s \in GoodDates, e \in GoodDates, u \in {None, "u1"} :
            generate_task_report_tool(s, e, u)
                => IF \E i \in DOMAIN tasks :
                        /\ tasks[i].created_at >= s * SecondsPerDay
                        /\ tasks[i].created_at <= (e + 1) * SecondsPerDay
                        /\ u # None => tasks[i].assignee_id = u
                   THEN PersistsOne("task")
                   ELSE PersistsNone
       /\ \A u \in UserIds :
            generate_weekly_summary_tool(u) => PersistsOne("weekly")]_vars

\* An attendance report over a store with a matching record has been persisted
C11_Witness ==
    /\ rep.tool = "generate_attendance_report"
    /\ rep.kind = "report"
    /\ rep.row = Len(reports)
    /\ Len(reports) = 1
    /\ reports[1].type = "attendance"
    /\ reports[1].content.employee_count = 1

\* the records whose clock_in falls on a day from start_date through end_date
\* and that pass the user and department filter
RecordsOfRange(start_date, end_date, user_id, department) ==
    {i \in DOMAIN clock_records :
        /\ DateOf(clock_records[i].clock_in) \in start_date..end_date
        /\ user_id # None => clock_records[i].user_id = user_id
        /\ department # None => UserDepartment(clock_records[i].user_id) = department}

\* C12: an attendance report generated with bounds start_date and end_date is
\* persisted with date_from = start_date and date_to = end_date, and its
\* total-hours figure is the sum of total_hours over the attendance records of
\* the range that pass the user/department filter, records without
\* total_hours counting 0.
C12_TotalHoursOfRange ==
    [][\A s \in GoodDates, e \in GoodDates, u \in {None, "u1"},
          d \in {None, "engineering"} :
          (generate_attendance_report_tool(s, e, u, d) /\ rep'.kind = "report")
            => LET row == reports'[rep'.row] IN
               /\ row.date_from = s * SecondsPerDay
               /\ row.date_to = e * SecondsPerDay
               /\ row.content.total_hours = SumHours(RecordsOfRange(s, e, u, d))]_vars

(***************************************************************************)
(* Further claims about execute_action (checked under Spec)                *)
(***************************************************************************)
\* C13: an exception raised by the agent run inside BaseAgent.execute is
\* caught there and turned into an envelope with success=false whose error is
\* the exception's message; execute does not re-raise, also when the audit
\* write of the failed call fails, and the run is not retried.
C13_ExceptionBecomesEnvelope ==
    \A c \in ExecCalls :
        ex[c].outcome \in Exceptions
            => /\ ex[c].pc \in {"saving", "closing", "returned"}
               /\ ex[c].raised_by = None
               /\ ex[c].runs = 1
               /\ ex[c].result.success = FALSE
               /\ "error" \in ex[c].result.keys
               /\ "output" \notin ex[c].result.keys
               /\ ex[c].result.error = ex[c].outcome

\* A call whose agent run raised, and whose audit write failed too, has
\* returned the failure envelope
C13_Witness ==
    \E c \in ExecCalls :
        /\ Returned(c)
        /\ ex[c].outcome = "LLM request failed"
        /\ ex[c].audit = "rolled_back"
        /\ ex[c].result.error = "LLM request failed"
        /\ ex[c].result.success = FALSE

\* C17: every persisted AgentAction row has a non-empty error_message if and
\* only if its success flag is false, whatever exception the agent run raised.
C17_ErrorTextIffFailure ==
    \A i \in DOMAIN agent_actions :
        (agent_actions[i].error_message \notin {None, ""})
            <=> (agent_actions[i].success = FALSE)

\* C19: no exception leaves AgentManager.execute_action except a failure to
\* acquire the store session; failures of the agent run, of initialization and
\* of the audit write are returned as an envelope.
C19_OnlySessionFailurePropagates ==
    \A c \in ExecCalls :
        ex[c].pc = "raised" => ex[c].raised_by = "SessionLocal"

Answered(c) == ex[c].response.status_code # 0

\* C14: every response of POST /agents/execute, for a registered or unknown
\* agent_type and every outcome of the agent run, carries the success flag
\* and exactly one of output and error.
C14_SuccessAndOutputOrError ==
    \A c \in ExecCalls :
        Answered(c)
            => /\ "success" \in ex[c].response.keys
               /\ ("output" \in ex[c].response.keys)
                    # ("error" \in ex[c].response.keys)

\* C15: the action_id in the response of POST /agents/execute is the id of the
\* AgentAction row that the same call created, under every interleaving of
\* concurrent requests, and is null when the call created no row.
C15_ActionIdOfOwnRow ==
    \A c \in ExecCalls :
        (Answered(c) /\ ex[c].response.status_code = 200)
            => IF ex[c].rows = {}
               THEN ex[c].response.action_id = NULL
               ELSE ex[c].response.action_id \in ex[c].rows

(***************************************************************************)
(* Further claims about the override endpoint (checked under OverrideSpec) *)
(***************************************************************************)
\* the columns of an AgentAction row that hold text or a reference
TextColumns ==
    {"agent_name", "action_type", "error_message", "user_id",
     "overridden_by_id", "override_reason"}

\* C16: a successful override records, with the overriding actor and the
\* reason, the corrective-action payload of the request: afterwards the
\* payload can be read from the persisted state of the overridden action.
C16_CorrectiveActionRecorded ==
    \A r \in OverrideReqs :
        ov[r].status_code = 200
            => \E column \in TextColumns :
                    agent_actions[ov[r].action_id][column] = ov[r].corrective_action

(***************************************************************************)
(* Claims about the audit log (checked under AuditSpec)                    *)
(***************************************************************************)
\* the override fields of an AgentAction row
OverrideColumns == {"overridden", "overridden_by_id", "override_reason"}

\* C18: across execute, history, detail and override operations no
\* AgentAction row is deleted and no field of a row other than the override
\* fields changes after insert; only the commit of an override request
\* changes an existing row, and overridden never returns from true to false.
C18_AppendOnlyExceptOverride ==
    [][/\ Len(agent_actions') >= Len(agent_actions)
       /\ \A i \in DOMAIN agent_actions :
            /\ \A column \in (DOMAIN agent_actions[i]) \ OverrideColumns :
                    agent_actions'[i][column] = agent_actions[i][column]
            /\ agent_actions[i].overridden => agent_actions'[i].overridden
            /\ agent_actions'[i] # agent_actions[i]
                => \E r \in OverrideReqs : Commits(r) /\ ov[r].action_id = i
      ]_vars

\* The execute request has logged a row, an earlier row has been overridden,
\* and the detail endpoint has returned a row
C18_Witness ==
    /\ ex[1].rows # {}
    /\ \E i \in DOMAIN agent_actions :
            agent_actions[i].overridden /\ i \notin ex[1].rows
    /\ view.op = "detail"
    /\ view.status_code = 200

(***************************************************************************)
(* C21: once the manager is initialized, a call of initialize, direct or   *)
(* through execute_action, leaves the registry, the retriever and the flag *)
(* as they are; cleanup empties the memory of every agent and resets the   *)
(* flag; the next initialize that does not raise builds the registry and   *)
(* the retriever again and sets the flag.                                  *)
(***************************************************************************)
C21_InitializeIdempotent ==
    [][ /\ \A ok \in BOOLEAN :
              initialized /\ initialize(ok)
                  => UNCHANGED <<initialized, agents, rag_retriever, memory, constructed>>
        /\ \A c \in LazyCalls, t \in RequestAgentTypes, ok \in BOOLEAN :
              initialized /\ execute_action(c, t, "u1", ok)
                  => UNCHANGED <<initialized, agents, rag_retriever, memory, constructed>>
        /\ cleanup => memory' = {} /\ ~initialized'
        /\ \A c \in LazyCalls, t \in RequestAgentTypes :
              ~initialized /\ (initialize(TRUE) \/ execute_action(c, t, "u1", TRUE))
                  => /\ initialized'
                     /\ agents' = RegistryKeys
                     /\ rag_retriever' = "RAGRetriever"
                     /\ memory' = {}
                     /\ constructed' = constructed + 1
      ]_vars

\* The registry was built, an agent of it kept an exchange, cleanup ran, the
\* registry was built again, and a further initialize found the flag set
C21_Witness ==
    /\ constructed = 2
    /\ initialized
    /\ mgr = [op |-> "initialize", result |-> "noop", by |-> "lifespan"]
    /\ \E c \in LazyCalls : ex[c].instance = 1 /\ ex[c].outcome = "ok"
    /\ memory = {}

(***************************************************************************)
(* C27: when calls of execute_action arrive on a manager that is not       *)
(* initialized, the registry and the retriever are built at most once: a   *)
(* step builds them only if the flag is not set and sets the flag in the   *)
(* same step, only cleanup resets the flag, and every call is dispatched   *)
(* to an agent of the registry that is current, with the flag set.         *)
(***************************************************************************)
C27_ConstructedOnce ==
    [][ /\ constructed' # constructed
              => ~initialized /\ initialized' /\ constructed' = constructed + 1
        /\ initialized /\ ~initialized' => mgr'.op = "cleanup"
        /\ \A c \in LazyCalls :
              ex[c].pc = "idle" /\ ex'[c].pc = "running"
                  => initialized' /\ ex'[c].instance = constructed'
      ]_vars

\* Two calls are in flight at once; the first of them found the manager not
\* initialized and built the registry, and both run an agent of that registry
C27_Witness ==
    /\ \A c \in LazyCalls : ex[c].pc = "running" /\ ex[c].instance = 1
    /\ constructed = 1
    /\ mgr = [op |-> "initialize", result |-> "constructed", by |-> "execute_action"]

(***************************************************************************)
(* C22: the total_hours clock_out_tool stores is (clock_out - clock_in)    *)
(* seconds divided by 3600, rounded to 2 decimals: it is never negative,   *)
(* it differs from the exact quotient by at most half a hundredth, and it  *)
(* is 8.0 for a record that spans exactly 8 hours. (total_hours is in      *)
(* hundredths of an hour: 36 seconds each.)                                *)
(***************************************************************************)
C22_TotalHoursRounded ==
    \A i \in DOMAIN clock_records :
        clock_records[i].total_hours # NULL =>
            LET seconds == clock_records[i].clock_out - clock_records[i].clock_in
                hours   == clock_records[i].total_hours
            IN  /\ hours >= 0
                /\ 36 * hours - seconds <= 18
                /\ seconds - 36 * hours <= 18
                /\ seconds = 8 * 3600 => hours = 800

\* A record closed exactly eight hours after its clock-in, by clock_out_tool
C22_Witness ==
    /\ \E i \in DOMAIN clock_records :
            /\ clock_records[i].clock_out = clock_records[i].clock_in + 8 * 3600
            /\ clock_records[i].total_hours = 800
    /\ \E k \in ClockCalls : ck[k].tool = "clock_out" /\ ck[k].pc = "done"
                              /\ ck[k].result = "Successfully clocked out"

(***************************************************************************)
(* C23: a store error while the audit row is written is handled inside the *)
(* agent: nothing is added to agent_actions, the envelope is the one the   *)
(* run produced (as when the write succeeds) and is the one returned, and  *)
(* the record a tool of the run committed stays; a tool call that failed   *)
(* and was rolled back does not keep the audit row from being committed.   *)
(***************************************************************************)
C23_AuditAndToolIndependent ==
    [][\A c \in ToolRuns :
        /\ save_action(c, FALSE)
              => /\ agent_actions' = agent_actions
                 /\ ex'[c].audit = "rolled_back"
                 /\ ex'[c].pc = "closing"
                 /\ ex'[c].result = ex[c].result
                 /\ clock_records' = clock_records
        /\ save_action(c, TRUE)
              => /\ ex'[c].result = ex[c].result
                 /\ Len(agent_actions') = Len(agent_actions) + 1
                 /\ agent_actions'[Len(agent_actions')].success = ex[c].result.success
                 /\ clock_records' = clock_records
        /\ close_session(c)
              => ex'[c].result =
                    IF ex[c].outcome = "ok"
                    THEN SuccessResult(AgentName("clock"))
                    ELSE ErrorResult(AgentName("clock"), ex[c].outcome)
      ]_vars

\* One run whose tool committed a record lost its audit row and returned the
\* success envelope; another run whose tool call failed has its audit row
C23_Witness ==
    \E c, d \in ToolRuns :
        /\ ex[c].pc = "returned" /\ ex[c].audit = "rolled_back"
        /\ ex[c].result = SuccessResult(AgentName("clock"))
        /\ ck[c].result = "Successfully clocked in"
        /\ \E i \in DOMAIN clock_records : ck[c].loaded = i
        /\ ex[d].pc = "returned" /\ ex[d].audit = "committed"
        /\ ck[d].result = "Error clocking in"
        /\ Len(agent_actions) = 1
        /\ Len(clock_records) = 1

(***************************************************************************)
(* C24 as stated: a call of a mutating tool that returns an 'Error...'     *)
(* string leaves the domain store as it was before the call, whichever     *)
(* step inside the tool raised (here: the task tools and the tables tasks  *)
(* and task_comments).                                                     *)
(***************************************************************************)
\* The strings of the task tools that report a failure
TaskErrors ==
    {"Error: Invalid priority", "Error creating task", "Error: Task not found",
     "Error: User not found", "Error: Invalid status", "Error updating task status"}

C24_ErrorLeavesStoreUnchanged ==
    [][last'.result \in TaskErrors
            => tasks' = tasks /\ task_comments' = task_comments]_vars

(***************************************************************************)
(* C25 as stated: the attendance and the task report tools select exactly  *)
(* the records whose timestamp (clock_in, created_at) falls on a calendar  *)
(* day from start_date through end_date: every record stamped on end_date  *)
(* is selected, and no record of a later day is, a record stamped at       *)
(* 00:00:00 of the day after end_date included. What a report counts and   *)
(* whether any record was found show the selection.                        *)
(***************************************************************************)
\* The tasks created on the days start_date..end_date that pass the filter
TasksOfRange(start_date, end_date, user_id) ==
    {i \in DOMAIN tasks :
        /\ DateOf(tasks[i].created_at) \in start_date..end_date
        /\ user_id # None => tasks[i].assignee_id = user_id}

C25_SelectsDaysOfRange ==
    [][\A s \in GoodDates, e \in GoodDates, u \in {None, "u1"} :
        /\ \A d \in {None, "engineering"} :
              generate_attendance_report_tool(s, e, u, d)
                => LET range == RecordsOfRange(s, e, u, d) IN
                   /\ rep'.kind = "none_found" <=> range = {}
                   /\ rep'.kind = "report" =>
                        /\ DOMAIN reports'[rep'.row].content.summary =
                                {clock_records[i].user_id : i \in range}
                        /\ \A v \in DOMAIN reports'[rep'.row].content.summary :
                                reports'[rep'.row].content.summary[v].days_worked =
                                    Cardinality({i \in range : clock_records[i].user_id = v})
        /\ generate_task_report_tool(s, e, u)
                => LET range == TasksOfRange(s, e, u) IN
                   /\ rep'.kind = "none_found" <=> range = {}
                   /\ rep'.kind = "report" =>
                        reports'[rep'.row].content.total = Cardinality(range)
      ]_vars

(***************************************************************************)
(* C26: no call of BaseAgent.execute inserts more than one AgentAction     *)
(* row: a step adds at most one row and changes none, the rows of a call   *)
(* are at most one, whose success flag is that of the run (never a success *)
(* row and a failure row), every row is the row of one call, and an audit  *)
(* write that fails adds nothing.                                          *)
(***************************************************************************)
C26_AtMostOneRowPerCall ==
    [][/\ Len(agent_actions') <= Len(agent_actions) + 1
       /\ SubSeq(agent_actions', 1, Len(agent_actions)) = agent_actions
       /\ Len(agent_actions') = Cardinality(UNION {ex'[c].rows : c \in ExecCalls})
       /\ \A c \in ExecCalls :
            /\ Cardinality(ex'[c].rows) <= 1
            /\ ex'[c].runs <= 1
            /\ \A i \in ex'[c].rows :
                    agent_actions'[i].success = (ex'[c].outcome = "ok")
            /\ save_action(c, FALSE)
                    => agent_actions' = agent_actions /\ ex'[c].rows = {}
      ]_vars

\* A call whose run raised has returned with its one row, a failure row, and
\* a call whose audit write failed has returned with none
C26_Witness ==
    \E c, d \in ExecCalls :
        /\ Returned(c) /\ ex[c].outcome \in Exceptions
        /\ \E i \in DOMAIN agent_actions :
                ex[c].rows = {i} /\ ~agent_actions[i].success
        /\ Returned(d) /\ ex[d].audit = "rolled_back" /\ ex[d].rows = {}
        /\ Len(agent_actions) = 1

(***************************************************************************)
(* C28 as stated: POST /reports/generate returns as report_id the id of    *)
(* the Report row persisted by that same call, for every report type and   *)
(* every caller: when the call persisted a report, report_id is not null   *)
(* and is not the id of a report of another call.                          *)
(***************************************************************************)
\* ids of the rows persisted while the request answered last was running
PersistedByRequest == (gen.before + 1)..Len(reports)

C28_ReportIdOfOwnReport ==
    (gen.pc = "done" /\ gen.status_code = 200 /\ PersistedByRequest # {})
        => gen.report_id \in PersistedByRequest

(***************************************************************************)
(* C29 as stated: GET /agents/actions/history called with agent_type = k,  *)
(* a registry key that POST /agents/execute accepts, returns exactly the    *)
(* visible rows that the agent registered under k logged; a caller who is  *)
(* no manager sees only the rows whose actor is the caller. (Page of 50    *)
(* rows from offset 0: the page holds every matching row.)                 *)
(***************************************************************************)
\* The rows the agent registered under key logged that the caller may see
VisibleRowsOf(key, caller, success_only) ==
    {i \in DOMAIN agent_actions :
        /\ agent_actions[i].agent_name = AgentName(key)
        /\ success_only => agent_actions[i].success
        /\ caller \notin Managers => agent_actions[i].user_id = caller}

C29_HistoryOfRegistryKey ==
    [][\A u \in ReadCallers, k \in AgentFilters \cap RegistryKeys, s \in BOOLEAN :
        get_agent_actions(u, k, s, 50, 0)
            => /\ {view'.ids[n] : n \in DOMAIN view'.ids} = VisibleRowsOf(k, u, s)
               /\ view'.total = Cardinality(VisibleRowsOf(k, u, s))
      ]_vars

(***************************************************************************)
(* C30: in every state reachable through the task tools (create, assign,   *)
(* update status) and the task endpoints (create, update, assign), a task  *)
(* whose status is completed has completed_at set.                         *)
(***************************************************************************)
C30_CompletedHasCompletedAt ==
    \A i \in DOMAIN tasks :
        tasks[i].status = "completed" => tasks[i].completed_at # NULL

\* A task was completed through PUT /tasks/{task_id} and carries its
\* completion time
C30_Witness ==
    /\ last.tool = "PUT /tasks/{task_id}" /\ last.result = "200"
    /\ TaskExists(last.task_id)
    /\ tasks[last.task_id].status = "completed"
    /\ tasks[last.task_id].completed_at = now
    /\ last.old_status # "completed"

====
